---- MODULE Spec2Model ----
(***************************************************************************)
(* The subscription registry (backend/app/manager.py), the poll loops of   *)
(* the two connectors (backend/app/connectors) and the start-up wiring     *)
(* (backend/app/main.py) as a state machine of asyncio tasks.  Every       *)
(* action is one run of one task from a suspension point (an await that    *)
(* really suspends) to the next one; the event loop is free to pick any    *)
(* ready task.                                                             *)
(***************************************************************************)
EXTENDS Integers, Sequences, FiniteSets, TLC

\* The WebSocket objects (one per client connection) and the market ids.
Conns == {"c1", "c2"}
Markets == {"pm", "km"}

\* Market.source of a market id once it is in the catalog.
Source(m) == IF m = "pm" THEN "polymarket" ELSE "kalshi"

\* Poller task objects that exist at the same time, unfinished or still referenced.
MaxPollers == 2
\* Broadcast tasks that exist at the same time.
MaxBroadcasts == 2
\* Broadcast tasks in flight at the same time in the slices that follow the
\* teardown races of one broadcast.
MaxInFlight == 1
\* update_orderbook and update_quote: the state-store updates one completed
\* order-book fetch makes at most.
MaxUpdates == 2

PIds == 1..MaxPollers
BIds == 1..MaxBroadcasts
None == 0

VARIABLES
    markets,        \* StateManager.markets: market id -> Market
    subscriptions,  \* SubscriptionManager.subscriptions: dict, in insertion order
    polling_tasks,  \* SubscriptionManager.polling_tasks: market id -> poller task
    pollers,        \* the poller tasks: market, position in the poll loop, pending cancel
    handlers,       \* websocket_endpoint, one per connection: position in the receive loop
    broadcasts,     \* the tasks created for SubscriptionManager.broadcast
    quote_history,  \* StateManager.quote_history: key -> deque of QuotePoint
    latest_orderbooks, \* StateManager.latest_orderbooks: key -> OrderBook
    now,            \* what time.time() returns
    reply,          \* what the last call into the state store (or its endpoint) returned
    msgs,           \* the message argument of each broadcast task
    applied,        \* how many update_quote / update_orderbook calls have been made
    received,       \* per connection and key, the message sent to it last
    sendq,          \* per connection, the broadcast tasks inside send_json, oldest first
    failed,         \* per poller task, whether its last upstream fetch failed
    search          \* the search_markets call of a connector that is under way

\* The registry and its tasks; the state store; the messages on their way.
rvars == <<markets, subscriptions, polling_tasks, pollers, handlers, broadcasts>>
store == <<quote_history, latest_orderbooks, now, reply>>
delivery == <<msgs, applied, received, sendq>>
vars == <<markets, subscriptions, polling_tasks, pollers, handlers, broadcasts,
          quote_history, latest_orderbooks, now, reply,
          msgs, applied, received, sendq, failed, search>>

\* The market ids in the catalog.
catalog == DOMAIN markets

----------------------------------------------------------------------------
\* A Python dict as a sequence of [k, v] entries in insertion order.

Keys(d) == {d[i].k : i \in 1..Len(d)}
Has(d, m) == m \in Keys(d)
Idx(d, m) == CHOOSE i \in 1..Len(d) : d[i].k = m
Get(d, m) == d[Idx(d, m)].v
Put(d, m, S) ==
    IF Has(d, m) THEN [d EXCEPT ![Idx(d, m)].v = S]
    ELSE Append(d, [k |-> m, v |-> S])
DelKey(d, m) == SelectSeq(d, LAMBDA e : e.k # m)
KeyList(d) == [i \in 1..Len(d) |-> d[i].k]

\* A dict whose order is never read, as a function on its keys.
Without(f, m) == [x \in DOMAIN f \ {m} |-> f[x]]
With(f, m, v) == [x \in DOMAIN f \cup {m} |-> IF x = m THEN v ELSE f[x]]

----------------------------------------------------------------------------
\* StateManager (backend/app/state.py) and the normalizations that feed it.

\* deque(maxlen=MAX_HISTORY_POINTS)
MAX_HISTORY_POINTS == 3600

\* A value that is absent: a missing field of an upstream record, the None a
\* store lookup or a normalization returns.
Absent == [type |-> "None"]

\* The fields of an upstream Kalshi market record that normalize_market reads
\* and the model follows; "-" is a missing field.
KalshiRecords == [ticker : {"km", "-"}, status : {"active", "open", "closed"},
                  title : {"t1", "t2"},
                  yes_bid : {0, 40}, yes_ask : {0, 60}]
\* The same for a Gamma API market record of Polymarket.
PolyRecords == [active : BOOLEAN, closed : BOOLEAN, conditionId : {"pm", "-"},
                question : {"t1", "t2"},
                clobTokenIds : {"-", "[]", "[\"tok1\", \"tok2\"]", "null", "oops"}]

\* json.loads(text) for the texts above: an array, null, or a
\* JSONDecodeError for a text that is not JSON.
json_loads(text) ==
    CASE text = "[]" -> [kind |-> "list", items |-> <<>>]
      [] text = "[\"tok1\", \"tok2\"]" -> [kind |-> "list", items |-> <<"tok1", "tok2">>]
      [] text = "null" -> [kind |-> "None", items |-> <<>>]
      [] OTHER -> [kind |-> "JSONDecodeError", items |-> <<>>]

\* f"{ticker}_yes"
Suffixed(id, suffix) == id \o suffix

\* float(cents) / 100, in units of half a cent (200 is the price 1.0).
cents_to_price(cents) == 2 * cents

\* The yes price taken from the bid alone.
yes_price_of_bid(yes_bid, yes_ask) == cents_to_price(yes_bid)

\* yes_price of normalize_market: (yes_bid + yes_ask) / 2 if yes_bid and
\* yes_ask else yes_bid or yes_ask; a missing or zero field counts as 0.
yes_price_of(yes_bid, yes_ask) ==
    IF yes_bid # 0 /\ yes_ask # 0
    THEN (cents_to_price(yes_bid) + cents_to_price(yes_ask)) \div 2
    ELSE IF yes_bid # 0 THEN cents_to_price(yes_bid) ELSE cents_to_price(yes_ask)

\* status not in ["active", "open"], left out: every status is tradable.
tradable_any(status) == TRUE

\* status in ["active", "open"]
tradable(status) == status \in {"active", "open"}

\* KalshiConnector.normalize_market; prices holds the price of each outcome.
normalize_market(data) ==
    IF data.ticker = "-" THEN Absent
    ELSE IF ~tradable(data.status) THEN Absent
    ELSE LET yes == yes_price_of(data.yes_bid, data.yes_ask) IN
         [type |-> "Market", status |-> "active", title |-> data.title,
          market_id |-> data.ticker, source |-> "kalshi",
          outcomes |-> <<Suffixed(data.ticker, "_yes"), Suffixed(data.ticker, "_no")>>,
          prices |-> <<yes, IF yes # 0 THEN 200 - yes ELSE 0>>]

\* The outcomes as parsed, without the fallback to the Yes/No pair.
outcomes_as_parsed(condition_id, text) ==
    LET parsed == json_loads(IF text = "-" THEN "[]" ELSE text)
    IN  IF parsed.kind = "None" THEN Absent ELSE parsed.items

\* The outcomes both normalizations of PolymarketConnector build: one per
\* token id of clobTokenIds ("[]" when the field is missing; [] when it is
\* not JSON), and the pair f"{condition_id}_yes", f"{condition_id}_no" when
\* that gives none.  Iterating over the None that "null" parses to raises a
\* TypeError, which the outer except turns into a return of None.
outcomes_of(condition_id, text) ==
    LET parsed == json_loads(IF text = "-" THEN "[]" ELSE text)
    IN  IF parsed.kind = "None" THEN Absent
        ELSE IF parsed.items # <<>> THEN parsed.items
        ELSE <<Suffixed(condition_id, "_yes"), Suffixed(condition_id, "_no")>>

\* PolymarketConnector._normalize_event_market
normalize_event_market(market_data) ==
    IF market_data.conditionId = "-" THEN Absent
    ELSE IF market_data.closed \/ ~market_data.active THEN Absent
    ELSE IF outcomes_of(market_data.conditionId, market_data.clobTokenIds) = Absent
    THEN Absent
    ELSE [type |-> "Market",
          status |-> IF market_data.active /\ ~market_data.closed
                     THEN "active" ELSE "closed",
          title |-> market_data.question,
          market_id |-> market_data.conditionId, source |-> "polymarket",
          outcomes |-> outcomes_of(market_data.conditionId, market_data.clobTokenIds)]

\* PolymarketConnector.normalize_market (legacy): as above, but a closed or
\* inactive market is normalized too, with the status "closed".
polymarket_normalize_market(data) ==
    IF data.conditionId = "-" THEN Absent
    ELSE IF outcomes_of(data.conditionId, data.clobTokenIds) = Absent THEN Absent
    ELSE [type |-> "Market",
          status |-> IF data.active /\ ~data.closed THEN "active" ELSE "closed",
          title |-> data.question,
          market_id |-> data.conditionId, source |-> "polymarket",
          outcomes |-> outcomes_of(data.conditionId, data.clobTokenIds)]

\* update_market that leaves an entry the catalog already has as it is.
update_market_keep(ms, market) ==
    IF market.market_id \in DOMAIN ms THEN ms ELSE With(ms, market.market_id, market)

\* StateManager.update_market: self.markets[market.market_id] = market
update_market(ms, market) == With(ms, market.market_id, market)

\* The Market a connector's search puts into the catalog for market id m.
MarketOf(m) ==
    IF m = "pm"
    THEN normalize_event_market([active |-> TRUE, closed |-> FALSE,
             conditionId |-> "pm", question |-> "t1", clobTokenIds |-> "[\"tok1\", \"tok2\"]"])
    ELSE normalize_market([ticker |-> m, status |-> "active", title |-> "t1",
                           yes_bid |-> 40, yes_ask |-> 60])

\* A key made of the market id alone.
Key_of_market(market_id, outcome_id) == market_id

\* key = f"{market_id}:{outcome_id}"
Key(market_id, outcome_id) == market_id \o ":" \o outcome_id

\* deque.append on a deque without maxlen.
deque_append_unbounded(d, x) == Append(d, x)

\* deque.append on a deque with maxlen: a full deque drops its leftmost item.
deque_append(d, x) ==
    IF Len(d) >= MAX_HISTORY_POINTS THEN Append(Tail(d), x) ELSE Append(d, x)

\* update_quote that returns its message and stores nothing.
update_quote_unstored(qh, market_id, outcome_id, price_mid, price_bid, price_ask, ts) ==
    [qh |-> qh,
     msg |-> [type |-> "quote", market_id |-> market_id,
              outcome_id |-> outcome_id, ts |-> ts, mid |-> price_mid,
              bid |-> price_bid, ask |-> price_ask]]

\* StateManager.update_quote with ts = time.time(): the new quote_history and
\* the QuoteMessage it returns.
update_quote(qh, market_id, outcome_id, price_mid, price_bid, price_ask, ts) ==
    LET key == Key(market_id, outcome_id)
        d == IF key \in DOMAIN qh THEN qh[key] ELSE <<>>
        point == [ts |-> ts, mid |-> price_mid, bid |-> price_bid, ask |-> price_ask]
    IN  [qh |-> With(qh, key, deque_append(d, point)),
         msg |-> [type |-> "quote", market_id |-> market_id,
                  outcome_id |-> outcome_id, ts |-> ts, mid |-> price_mid,
                  bid |-> price_bid, ask |-> price_ask]]

\* update_orderbook that keeps the snapshot a key already has.
update_orderbook_keep_first(ob, market_id, outcome_id, bids, asks, ts) ==
    LET key == Key(market_id, outcome_id) IN
    [msg |-> [type |-> "orderbook", market_id |-> market_id,
              outcome_id |-> outcome_id, ts |-> ts, bids |-> bids, asks |-> asks],
     ob |-> IF key \in DOMAIN ob THEN ob
            ELSE With(ob, key, [market_id |-> market_id, outcome_id |-> outcome_id,
                                ts |-> ts, bids |-> bids, asks |-> asks])]

\* StateManager.update_orderbook with ts = time.time(): the new
\* latest_orderbooks and the OrderBookMessage it returns.
update_orderbook(ob, market_id, outcome_id, bids, asks, ts) ==
    LET key == Key(market_id, outcome_id) IN
    [msg |-> [type |-> "orderbook", market_id |-> market_id,
              outcome_id |-> outcome_id, ts |-> ts, bids |-> bids, asks |-> asks],
     ob |-> With(ob, key, [market_id |-> market_id, outcome_id |-> outcome_id,
                           ts |-> ts, bids |-> bids, asks |-> asks])]

\* StateManager.get_history(market_id, outcome_id)
get_history(qh, market_id, outcome_id) ==
    LET key == Key(market_id, outcome_id) IN
    IF key \in DOMAIN qh THEN qh[key] ELSE <<>>

\* StateManager.get_orderbook(market_id, outcome_id)
get_orderbook(ob, market_id, outcome_id) ==
    LET key == Key(market_id, outcome_id) IN
    IF key \in DOMAIN ob THEN ob[key] ELSE Absent

----------------------------------------------------------------------------
\* Task records.

\* A poller slot that holds no unfinished task.
DonePoller == [m |-> "-", pc |-> "done", cancelling |-> FALSE]
\* asyncio.create_task(_poll_loop()): created, not yet run.
NewPoller(m) == [m |-> m, pc |-> "start", cancelling |-> FALSE]

IdleHandler == [m |-> "-", pc |-> "recv", p |-> None, all |-> FALSE, rest |-> <<>>]

\* No search_markets call under way.  Two fields are not of the code: calls
\* counts the calls made so far, dropped tells whether a record of the call
\* has normalized to None.
IdleSearch == [source |-> "-", pc |-> "idle", query |-> "", results |-> <<>>,
               seen_ids |-> {}, pages_scanned |-> 0, calls |-> 0, dropped |-> FALSE]
EndHandler(pc) == [m |-> "-", pc |-> pc, p |-> None, all |-> FALSE, rest |-> <<>>]

IdleBroadcast ==
    [m |-> "-", pc |-> "idle", p |-> None, rest |-> <<>>, live |-> FALSE,
     snap |-> {}, set0 |-> {}, cur |-> "-", delivered |-> {}, dead |-> <<>>]
NewBroadcast(m) == [IdleBroadcast EXCEPT !.pc = "ready", !.m = m]
\* The sockets the first loop of a broadcast has taken from the iterator so far.
Visited(rec) == rec.delivered \cup {rec.dead[i] : i \in 1..Len(rec.dead)} \cup
                (IF rec.pc = "send" THEN {rec.cur} ELSE {})

\* The state the registry's methods read and write, as one value.
Reg == [pollers |-> pollers, subs |-> subscriptions, tasks |-> polling_tasks,
        bcs |-> broadcasts]

Live(ps, m) == {p \in PIds : ps[p].pc # "done" /\ ps[p].m = m}

\* Poller slots that hold a finished task nobody refers to any more.
FreePollers(R) ==
    {p \in PIds :
        /\ R.pollers[p].pc = "done"
        /\ \A m \in DOMAIN R.tasks : R.tasks[m] # p
        /\ \A c \in Conns : handlers[c].p # p
        /\ \A b \in BIds : R.bcs[b].p # p}
MinOf(S) == CHOOSE x \in S : \A y \in S : x <= y

----------------------------------------------------------------------------
\* SubscriptionManager, method by method.  A method that can suspend returns
\* how it left: "ret" (returned), "wait" (suspended in `await task` on poller
\* p, inside unsubscribe of market m) or "raise" (an exception escaped).

Res(R, out, p, m, rest) == [m |-> m, p |-> p, rest |-> rest, R |-> R, out |-> out]
Ret(R) == Res(R, "ret", None, "-", <<>>)
Raise(R) == Res(R, "raise", None, "-", <<>>)

\* lifespan.spawner without the catalog lookup: a poller for any market id.
spawner_any(R, m) ==
    IF FreePollers(R) = {} THEN None ELSE MinOf(FreePollers(R))

\* lifespan.spawner: no task for a market that is not in the catalog, else
\* the connector's spawn_poller, which creates the task.
spawner(R, m) ==
    IF m \notin catalog THEN None
    ELSE IF Source(m) \in {"polymarket", "kalshi"} THEN MinOf(FreePollers(R))
    ELSE None

start_polling(R, m) ==
    IF m \in DOMAIN R.tasks THEN R
    ELSE LET task == spawner(R, m) IN
         IF task = None THEN R
         ELSE [R EXCEPT !.tasks = With(R.tasks, m, task),
                        !.pollers[task] = NewPoller(m)]

subscribe(R, m, ws) ==
    LET d1 == IF Has(R.subs, m) THEN R.subs ELSE Put(R.subs, m, {})
        d2 == Put(d1, m, Get(d1, m) \cup {ws})
        R2 == [R EXCEPT !.subs = d2]
    IN  IF Cardinality(Get(d2, m)) = 1 THEN start_polling(R2, m) ELSE R2

\* Task.cancel(): a finished task ignores it; an unfinished one gets
\* CancelledError thrown in at the await where it is suspended, on its next run.
cancel(ps, p) ==
    IF ps[p].pc = "done" THEN ps ELSE [ps EXCEPT ![p].cancelling = TRUE]

\* self.subscriptions.clear() in the place of del self.subscriptions[m].
del_every_subscription(R, m) == [R EXCEPT !.subs = <<>>]

\* del self.subscriptions[m]: the set object leaves the dict; a broadcast that
\* is iterating it keeps the object, with the content it has now.
del_subscriptions(R, m) ==
    [R EXCEPT !.subs = DelKey(R.subs, m),
              !.bcs = [b \in BIds |->
                  IF R.bcs[b].live /\ R.bcs[b].m = m
                  THEN [R.bcs[b] EXCEPT !.live = FALSE, !.snap = Get(R.subs, m)]
                  ELSE R.bcs[b]]]

\* _stop_polling from the return of `await task` on: del self.polling_tasks[m],
\* a KeyError when another path has deleted the key meanwhile.
stop_polling_end(R, m) ==
    IF m \notin DOMAIN R.tasks THEN Raise(R)
    ELSE Ret([R EXCEPT !.tasks = Without(R.tasks, m)])

\* _stop_polling without the await: cancel, then delete the handle at once.
stop_polling_no_await(R, m) ==
    IF m \in DOMAIN R.tasks
    THEN Ret([R EXCEPT !.pollers = cancel(R.pollers, R.tasks[m]),
                       !.tasks = Without(R.tasks, m)])
    ELSE Ret(R)

\* _stop_polling up to `await task`, which suspends unless the task is finished.
stop_polling(R, m) ==
    IF m \in DOMAIN R.tasks
    THEN LET p == R.tasks[m]
             R1 == [R EXCEPT !.pollers = cancel(R.pollers, p)]
         IN  IF R.pollers[p].pc = "done" THEN stop_polling_end(R1, m)
             ELSE Res(R1, "wait", p, m, <<>>)
    ELSE Ret(R)

\* The last line of unsubscribe: del self.subscriptions[m].
unsubscribe_end(R, m) ==
    IF ~Has(R.subs, m) THEN Raise(R) ELSE Ret(del_subscriptions(R, m))

\* unsubscribe from the return of `await task` to its end.
unsubscribe_resume(R, m) ==
    LET r == stop_polling_end(R, m) IN
    IF r.out = "ret" THEN unsubscribe_end(r.R, m) ELSE r

unsubscribe(R, m, ws) ==
    IF ~Has(R.subs, m) THEN Ret(R)
    ELSE LET R1 == [R EXCEPT !.subs = Put(R.subs, m, Get(R.subs, m) \ {ws})] IN
         IF Get(R1.subs, m) = {}
         THEN LET r == stop_polling(R1, m) IN
              IF r.out = "ret" THEN unsubscribe_end(r.R, m) ELSE r
         ELSE Ret(R1)

\* unsubscribe_from_all that leaves the loop after the first market it
\* unsubscribes the connection from.
RECURSIVE unsubscribe_from_all_first(_, _, _)
unsubscribe_from_all_first(R, ws, ids) ==
    IF ids = <<>> THEN Ret(R)
    ELSE LET m == Head(ids) IN
         IF ~Has(R.subs, m) THEN Raise(R)
         ELSE IF ws \in Get(R.subs, m)
              THEN LET r == unsubscribe(R, m, ws) IN
                   IF r.out = "ret" THEN r ELSE [r EXCEPT !.rest = <<>>]
              ELSE unsubscribe_from_all_first(R, ws, Tail(ids))

\* unsubscribe_from_all over what is left of list(self.subscriptions.keys()).
RECURSIVE unsubscribe_from_all(_, _, _)
unsubscribe_from_all(R, ws, ids) ==
    IF ids = <<>> THEN Ret(R)
    ELSE LET m == Head(ids) IN
         IF ~Has(R.subs, m) THEN Raise(R)
         ELSE IF ws \in Get(R.subs, m)
              THEN LET r == unsubscribe(R, m, ws) IN
                   IF r.out = "ret" THEN unsubscribe_from_all(r.R, ws, Tail(ids))
                   ELSE [r EXCEPT !.rest = Tail(ids)]
              ELSE unsubscribe_from_all(R, ws, Tail(ids))

\* broadcast without its second loop: dead sockets are collected and left in.
unsubscribe_dead_skipped(R, m, dead) == Ret(R)

\* broadcast's second loop: for ws in dead_sockets: await self.unsubscribe(m, ws).
RECURSIVE unsubscribe_dead(_, _, _)
unsubscribe_dead(R, m, dead) ==
    IF dead = <<>> THEN Ret(R)
    ELSE LET r == unsubscribe(R, m, Head(dead)) IN
         IF r.out = "ret" THEN unsubscribe_dead(r.R, m, Tail(dead))
         ELSE [r EXCEPT !.rest = Tail(dead)]

----------------------------------------------------------------------------
\* The state after construction and start-up wiring: nothing subscribed, no
\* task, an empty catalog and an empty store, every connection accepted and
\* in its receive loop.

\* A quote history of n points, one a second, the last one at time n.
Recorded(n) == [i \in 1..n |-> [ts |-> i, mid |-> 100, bid |-> 80, ask |-> 120]]

\* The key whose history SpecHistory follows.
HistKey == <<"km", Suffixed("km", "_yes")>>

\* The store of a server that has run for an hour less a second: the history
\* of one key holds n points (none: no history at all), no order book.
InitStore(n) ==
    /\ quote_history = IF n = 0 THEN [k \in {} |-> <<>>]
                       ELSE [k \in {Key(HistKey[1], HistKey[2])} |-> Recorded(n)]
    /\ latest_orderbooks = [k \in {} |-> Absent]
    /\ now = MAX_HISTORY_POINTS - 1
    /\ reply = Absent

\* No broadcast task, nothing sent.
InitDelivery ==
    /\ msgs = [b \in BIds |-> Absent]
    /\ applied = 0
    /\ received = [c \in Conns |-> [k \in {} |-> Absent]]
    /\ sendq = [c \in Conns |-> <<>>]

\* SubscriptionManager.__new__ and the tasks: nothing subscribed, no task.
InitRegistry ==
    /\ subscriptions = <<>>
    /\ polling_tasks = [m \in {} |-> None]
    /\ pollers = [p \in PIds |-> DonePoller]
    /\ handlers = [c \in Conns |-> IdleHandler]
    /\ broadcasts = [b \in BIds |-> IdleBroadcast]
    /\ failed = [p \in PIds |-> FALSE]

Init ==
    /\ markets = [m \in {} |-> Absent]
    /\ InitRegistry
    /\ search = IdleSearch
    /\ InitStore(0)
    /\ InitDelivery

Apply(R) ==
    /\ subscriptions' = R.subs
    /\ polling_tasks' = R.tasks
    /\ pollers' = R.pollers

\* StateManager.update_market, called by a connector's search: m enters the catalog.
UpdateMarket(m) ==
    /\ m \notin catalog
    /\ markets' = update_market(markets, MarketOf(m))
    /\ UNCHANGED <<subscriptions, polling_tasks, pollers, handlers, broadcasts>>
    /\ UNCHANGED <<store, delivery, failed, search>>

----------------------------------------------------------------------------
\* websocket_endpoint: one message of the receive loop, or its end.

\* Where the handler of connection c is after a registry call that left as r.
AfterCall(r, all) ==
    IF r.out = "raise" THEN EndHandler("crashed")
    ELSE IF r.out = "wait"
         THEN [m |-> r.m, pc |-> "stop_wait", p |-> r.p, all |-> all, rest |-> r.rest]
         ELSE IF all THEN EndHandler("closed") ELSE IdleHandler

\* A subscribe that has to create a poller task needs a slot for it.
CanSubscribe(m, ws) ==
    \/ FreePollers(Reg) # {}
    \/ m \notin catalog
    \/ m \in DOMAIN polling_tasks
    \/ (Has(subscriptions, m) /\ Get(subscriptions, m) \ {ws} # {})

\* op == "subscribe_market"
Subscribe(c, m) ==
    /\ handlers[c].pc = "recv"
    /\ CanSubscribe(m, c)
    /\ LET R == subscribe(Reg, m, c) IN Apply(R) /\ broadcasts' = R.bcs
    /\ UNCHANGED <<markets, handlers, store, delivery, failed, search>>

\* op == "unsubscribe_market"
Unsubscribe(c, m) ==
    /\ handlers[c].pc = "recv"
    /\ LET r == unsubscribe(Reg, m, c) IN
        /\ Apply(r.R) /\ broadcasts' = r.R.bcs
        /\ handlers' = [handlers EXCEPT ![c] = AfterCall(r, FALSE)]
    /\ UNCHANGED <<markets, store, delivery, failed, search>>

\* receive_json raises WebSocketDisconnect: unsubscribe_from_all(websocket).
Disconnect(c) ==
    /\ handlers[c].pc = "recv"
    /\ LET r == unsubscribe_from_all(Reg, c, KeyList(subscriptions)) IN
        /\ Apply(r.R) /\ broadcasts' = r.R.bcs
        /\ handlers' = [handlers EXCEPT ![c] = AfterCall(r, TRUE)]
    /\ UNCHANGED <<markets, store, delivery, failed, search>>

\* receive_json raises something else than WebSocketDisconnect (the text is
\* not JSON), or data.get fails (the JSON is not an object): the exception
\* leaves websocket_endpoint, whose only handler is for WebSocketDisconnect.
ReceiveFails(c) ==
    /\ handlers[c].pc = "recv"
    /\ handlers' = [handlers EXCEPT ![c] = EndHandler("crashed")]
    /\ UNCHANGED <<markets, subscriptions, polling_tasks, pollers, broadcasts>>
    /\ UNCHANGED <<store, delivery, failed, search>>

\* The poller the handler awaits in _stop_polling has finished: the rest of
\* unsubscribe, then the rest of unsubscribe_from_all when it was the caller.
HandlerResume(c) ==
    /\ handlers[c].pc = "stop_wait"
    /\ pollers[handlers[c].p].pc = "done"
    /\ LET h == handlers[c]
           r1 == unsubscribe_resume(Reg, h.m)
           r == IF r1.out = "ret" /\ h.all
                THEN unsubscribe_from_all(r1.R, c, h.rest) ELSE r1
       IN /\ Apply(r.R) /\ broadcasts' = r.R.bcs
          /\ handlers' = [handlers EXCEPT ![c] = AfterCall(r, h.all)]
    /\ UNCHANGED <<markets, store, delivery, failed, search>>

----------------------------------------------------------------------------
\* Calls into the state store: the REST endpoints and tests that read it, the
\* connectors' searches that feed the catalog, and update_quote /
\* update_orderbook called on the store as it is before the start-up wiring.

\* State-store updates made in a behaviour of a slice that follows them.
MaxApplied == 2
\* Seconds that pass in a behaviour of SpecStore.
MaxTicks == 2

\* The (market_id, outcome_id) pairs the calls are made for.
StoreKeys == {<<"km", Suffixed("km", "_yes")>>, <<"pm", "tok1">>, <<"pm", "tok2">>}
\* (price_mid, price_bid, price_ask) of an update_quote call; a price is in
\* units of half a cent, so that the mid of two prices is a whole number.
Quotes == {[mid |-> 100, bid |-> 80, ask |-> 120], [mid |-> 80, bid |-> 80, ask |-> 80]}
\* (bids, asks) of an update_orderbook call: lists of OrderBookLevel.
Books == {[bids |-> <<[p |-> 80, s |-> 5]>>, asks |-> <<[p |-> 120, s |-> 5]>>],
          [bids |-> <<>>, asks |-> <<[p |-> 120, s |-> 7]>>]}

\* time.time() moves on.
Tick ==
    /\ now < MAX_HISTORY_POINTS - 1 + MaxTicks
    /\ now' = now + 1
    /\ UNCHANGED <<rvars, quote_history, latest_orderbooks, reply, delivery, failed, search>>

\* StateManager.update_quote(market_id, outcome_id, mid, bid, ask)
UpdateQuote(market_id, outcome_id, q) ==
    /\ applied < MaxApplied
    /\ LET r == update_quote(quote_history, market_id, outcome_id,
                             q.mid, q.bid, q.ask, now)
       IN  quote_history' = r.qh /\ reply' = r.msg
    /\ applied' = applied + 1
    /\ UNCHANGED <<rvars, latest_orderbooks, now, msgs, received, sendq, failed, search>>

\* StateManager.update_orderbook(market_id, outcome_id, bids, asks)
UpdateOrderbook(market_id, outcome_id, book) ==
    /\ applied < MaxApplied
    /\ LET r == update_orderbook(latest_orderbooks, market_id, outcome_id,
                                 book.bids, book.asks, now)
       IN  latest_orderbooks' = r.ob /\ reply' = r.msg
    /\ applied' = applied + 1
    /\ UNCHANGED <<rvars, quote_history, now, msgs, received, sendq, failed, search>>

\* StateManager.get_history(market_id, outcome_id)
GetHistory(market_id, outcome_id) ==
    /\ reply' = [type |-> "get_history", market_id |-> market_id,
                 outcome_id |-> outcome_id,
                 points |-> get_history(quote_history, market_id, outcome_id)]
    /\ UNCHANGED <<rvars, quote_history, latest_orderbooks, now, delivery, failed, search>>

\* StateManager.get_orderbook(market_id, outcome_id)
GetOrderbook(market_id, outcome_id) ==
    /\ reply' = [type |-> "get_orderbook", market_id |-> market_id,
                 outcome_id |-> outcome_id,
                 book |-> get_orderbook(latest_orderbooks, market_id, outcome_id)]
    /\ UNCHANGED <<rvars, quote_history, latest_orderbooks, now, delivery, failed, search>>

\* The `range` query parameter of GET /markets/{market_id}/history.
Ranges == {"-", "ALL", "1H"}
\* get_market_history: range -> range_seconds, "-" for None.
range_seconds(range) ==
    IF range = "-" \/ range = "ALL" THEN "-"
    ELSE IF range = "1H" THEN 3600 ELSE "-"

\* A call of the method get_history(self, market_id, outcome_id) with the
\* positional arguments args: Python raises TypeError unless there are two.
call_get_history(qh, args) ==
    IF Len(args) # 2 THEN [type |-> "TypeError"]
    ELSE [type |-> "ok", points |-> get_history(qh, args[1], args[2])]

\* GET /markets/{market_id}/history?outcome_id=..&range=..
get_market_history(ms, qh, market_id, outcome_id, range) ==
    IF market_id \notin DOMAIN ms THEN [type |-> "HTTPException", status |-> 404]
    ELSE LET oid == IF outcome_id = "-" /\ ms[market_id].outcomes # <<>>
                    THEN ms[market_id].outcomes[1] ELSE outcome_id
         IN  IF oid = "-" THEN [type |-> "HTTPException", status |-> 400]
             ELSE call_get_history(qh, <<market_id, oid, range_seconds(range)>>)

GetMarketHistory(market_id, outcome_id, range) ==
    /\ reply' = [type |-> "get_market_history", market_id |-> market_id,
                 outcome_id |-> outcome_id, range |-> range,
                 result |-> get_market_history(markets, quote_history,
                                               market_id, outcome_id, range)]
    /\ UNCHANGED <<rvars, quote_history, latest_orderbooks, now, delivery, failed, search>>

\* A connector's search result: normalize the upstream record and, when that
\* gives a Market, put it into the catalog.
Ingest(market) ==
    /\ reply' = market
    /\ markets' = IF market = Absent THEN markets ELSE update_market(markets, market)
    /\ UNCHANGED <<subscriptions, polling_tasks, pollers, handlers, broadcasts>>
    /\ UNCHANGED <<quote_history, latest_orderbooks, now, delivery, failed, search>>

IngestKalshi(data) == Ingest(normalize_market(data))
IngestPolymarket(market_data) == Ingest(normalize_event_market(market_data))

\* PolymarketConnector.normalize_market, which nothing calls: its result is
\* returned and goes nowhere.
NormalizeLegacy(data) ==
    /\ reply' = [type |-> "normalize_market", result |-> polymarket_normalize_market(data)]
    /\ UNCHANGED <<rvars, quote_history, latest_orderbooks, now, delivery, failed, search>>

----------------------------------------------------------------------------
\* SubscriptionManager.broadcast, run as a task of its own by
\* side_effect_quote / side_effect_ob.

\* The record of a broadcast that has ended: what it delivered and whom it
\* found dead stay readable until the slot is taken again.
Finish(rec, pc) ==
    [rec EXCEPT !.pc = pc, !.live = FALSE, !.snap = {}, !.cur = "-",
                !.rest = <<>>, !.p = None]

\* Where broadcast b is after its second loop left as r.
AfterDead(rec, r) ==
    IF r.out = "raise" THEN Finish(rec, "raised")
    ELSE IF r.out = "wait"
         THEN [Finish(rec, "stop_wait") EXCEPT !.rest = r.rest, !.p = r.p]
         ELSE Finish(rec, "done")

\* The first loop is over: unsubscribe every dead socket.
BroadcastDead(b, rec) ==
    LET r == unsubscribe_dead(Reg, rec.m, rec.dead) IN
    /\ Apply(r.R)
    /\ broadcasts' = [r.R.bcs EXCEPT ![b] = AfterDead(rec, r)]

\* Where a WebSocket object sits in the hash table of a set: its hash is its
\* address, the same in every set, and a set iterates in table order.  Which
\* connection comes first is the run's; the connections are alike in every
\* other respect, and the model calls c2 the one that comes first.
Slot(ws) == IF ws = "c2" THEN 1 ELSE IF ws = "c1" THEN 2 ELSE 0

\* The next() of `for websocket in self.subscriptions[market_id]`.  The set
\* iterator raises RuntimeError when the set's size differs from the size it
\* had when the loop began; else it yields the next member behind the one it
\* yielded last (rec.cur), as the set is now.
BroadcastNext(b, rec) ==
    LET obj == IF rec.live THEN Get(subscriptions, rec.m) ELSE rec.snap
        later == {ws \in obj : Slot(ws) > Slot(rec.cur)}
    IN  IF Cardinality(obj) # Cardinality(rec.set0)
        THEN /\ broadcasts' = [broadcasts EXCEPT ![b] = Finish(rec, "raised")]
             /\ UNCHANGED <<subscriptions, polling_tasks, pollers>>
        ELSE IF later # {}
        THEN /\ broadcasts' = [broadcasts EXCEPT ![b] =
                    [rec EXCEPT !.pc = "send",
                        !.cur = CHOOSE ws \in later :
                                    \A x \in later : Slot(ws) <= Slot(x)]]
             /\ UNCHANGED <<subscriptions, polling_tasks, pollers>>
        ELSE BroadcastDead(b, rec)

\* send_json hands the frame to the connection's transport when it is called
\* and then waits for the transport to drain; the waits on one connection end
\* in the order in which they began.  q is sendq without the send that has
\* just ended; a broadcast that has entered a send joins its connection's queue.
Enqueue(q, b) ==
    IF broadcasts'[b].pc = "send"
    THEN [q EXCEPT ![broadcasts'[b].cur] = Append(@, b)]
    ELSE q

\* The first run of the task: `if market_id in self.subscriptions`, then the
\* loop up to its first send.
BroadcastStart(b) ==
    /\ broadcasts[b].pc = "ready"
    /\ LET rec == broadcasts[b] IN
       IF ~Has(subscriptions, rec.m)
       THEN /\ broadcasts' = [broadcasts EXCEPT ![b] = Finish(rec, "done")]
            /\ UNCHANGED <<subscriptions, polling_tasks, pollers>>
       ELSE BroadcastNext(b, [rec EXCEPT !.live = TRUE,
                                         !.set0 = Get(subscriptions, rec.m)])
    /\ sendq' = Enqueue(sendq, b)
    /\ UNCHANGED <<markets, handlers, store, msgs, applied, received, failed, search>>

\* The key of a message, and what a connection has been sent last for each key.
KeyOf(msg) == Key(msg.market_id, msg.outcome_id)
Delivered(rcv, ws, msg) ==
    IF msg = Absent THEN rcv
    ELSE [rcv EXCEPT ![ws] = With(@, KeyOf(msg), msg)]

\* `await websocket.send_json(message)` returns (ok) or raises an Exception.
BroadcastSend(b, ok) ==
    /\ broadcasts[b].pc = "send"
    /\ Head(sendq[broadcasts[b].cur]) = b
    /\ LET rec == broadcasts[b] IN
       BroadcastNext(b, IF ok
           THEN [rec EXCEPT !.pc = "next", !.delivered = @ \cup {rec.cur}]
           ELSE [rec EXCEPT !.pc = "next", !.dead = Append(@, rec.cur)])
    /\ sendq' = Enqueue([sendq EXCEPT ![broadcasts[b].cur] = Tail(@)], b)
    /\ received' = IF ok THEN Delivered(received, broadcasts[b].cur, msgs[b])
                         ELSE received
    /\ UNCHANGED <<markets, handlers, store, msgs, applied, failed, search>>

\* The poller awaited in _stop_polling has finished: the rest of that
\* unsubscribe, then the remaining dead sockets.
BroadcastResume(b) ==
    /\ broadcasts[b].pc = "stop_wait"
    /\ pollers[broadcasts[b].p].pc = "done"
    /\ LET rec == broadcasts[b]
           r1 == unsubscribe_resume(Reg, rec.m)
           r == IF r1.out = "ret" THEN unsubscribe_dead(r1.R, rec.m, rec.rest)
                ELSE r1
       IN /\ Apply(r.R)
          /\ broadcasts' = [r.R.bcs EXCEPT ![b] = AfterDead(rec, r)]
    /\ UNCHANGED <<markets, handlers, store, delivery, failed, search>>

----------------------------------------------------------------------------
\* The poll loops, PolymarketConnector.spawn_poller and KalshiConnector.spawn_poller.

FreeBroadcasts == {b \in BIds : broadcasts[b].pc \in {"idle", "done", "raised"}}

\* side_effect_quote / side_effect_ob, k times: every update_quote and
\* update_orderbook of a poll creates a task that runs broadcast for market m.
RECURSIVE create_tasks(_, _, _)
create_tasks(bcs, m, k) ==
    IF k = 0 THEN bcs
    ELSE LET b == MinOf({x \in BIds : bcs[x].pc \in {"idle", "done", "raised"}})
         IN  create_tasks([bcs EXCEPT ![b] = NewBroadcast(m)], m, k - 1)

\* Where the loop suspends next when the await at pc returns normally.
NextPc(src, pc) ==
    IF src = "polymarket"
    THEN CASE pc = "start" -> "price"
           [] pc = "price" -> "book"
           [] pc = "book"  -> "pause"
           [] pc = "pause" -> "sleep"
           [] pc = "sleep" -> "price"
    ELSE CASE pc = "start" -> "book"
           [] pc = "book"  -> "sleep"
           [] pc = "sleep" -> "book"

\* The awaits inside a try whose handler also catches CancelledError:
\* the bare `except:` of KalshiConnector.poll_orderbook.  The handlers of the
\* Polymarket loop are `except Exception`, which lets CancelledError through.
Swallows(src, pc) == src = "kalshi" /\ pc = "book"

\* The task runs with a cancel pending: CancelledError is thrown in at its await.
PollerCancelled(p) ==
    /\ pollers[p].pc # "done"
    /\ pollers[p].cancelling
    /\ pollers' = [pollers EXCEPT ![p] =
          IF Swallows(Source(pollers[p].m), pollers[p].pc)
          THEN [@ EXCEPT !.pc = NextPc(Source(pollers[p].m), pollers[p].pc),
                         !.cancelling = FALSE]
          ELSE DonePoller]
    /\ failed' = [failed EXCEPT ![p] = @ /\ pollers'[p].pc # "done"]
    /\ UNCHANGED search
    /\ UNCHANGED <<markets, subscriptions, polling_tasks, handlers, broadcasts>>
    /\ UNCHANGED <<store, delivery>>

\* What can go wrong with an upstream fetch, and what the code gets then: an
\* exception of httpx for a transport error; a response whose status is not
\* 200, which raises nothing; for a malformed payload a ValueError from
\* resp.json() or float(), or an AttributeError / TypeError / IndexError from
\* the code that takes the payload apart.
Failures == {"transport", "status", "malformed"}
Raised(failure) ==
    CASE failure = "transport" -> {"httpx.TransportError"}
      [] failure = "status"    -> {}
      [] failure = "malformed" -> {"ValueError", "AttributeError", "TypeError", "IndexError"}
      [] failure = "-"         -> {}

\* No exception handler around the fetch at pc.
Unhandled(src, pc) == "-"

\* The except clause around the fetch at pc and the handling of its response:
\* the bare `except:` of KalshiConnector.poll_orderbook and of the ticker
\* lookup of its search_markets, the `except Exception` of the scan of its
\* search_markets, of PolymarketConnector.poll_market_price, poll_orderbook
\* and search_markets; none around the sleeps.
Handler(src, pc) ==
    IF src = "kalshi"
    THEN (IF pc \in {"book", "lookup"} THEN "except:"
          ELSE IF pc = "scan" THEN "except Exception" ELSE "-")
    ELSE IF pc \in {"price", "book", "public"} THEN "except Exception" ELSE "-"

\* An except clause that catches nothing.
catches_nothing(handler, exc) == FALSE

\* Whether an except clause catches an exception of class exc:
\* CancelledError is a BaseException and not an Exception.
Catches(handler, exc) ==
    \/ handler = "except:"
    \/ handler = "except Exception" /\ exc # "CancelledError"

\* The upstream fetch the task is suspended in fails.  An exception that the
\* except clause around it catches is dropped (Polymarket prints it) and the
\* loop goes on to its next await; one that it does not catch ends the task.
PollerFails(p, failure) ==
    /\ pollers[p].pc \in {"price", "book"}
    /\ ~pollers[p].cancelling
    /\ LET src == Source(pollers[p].m)
           pc == pollers[p].pc
       IN  pollers' = [pollers EXCEPT ![p] =
              IF \A exc \in Raised(failure) : Catches(Handler(src, pc), exc)
              THEN [@ EXCEPT !.pc = NextPc(src, pc)]
              ELSE DonePoller]
    /\ failed' = [failed EXCEPT ![p] = TRUE]
    /\ UNCHANGED search
    /\ UNCHANGED <<markets, subscriptions, polling_tasks, handlers, broadcasts>>
    /\ UNCHANGED <<store, delivery>>

\* The await the task is suspended in returns; an upstream fetch that returns
\* makes k state-store updates (none when it brought nothing to store).
PollerStep(p, k) ==
    /\ pollers[p].pc # "done"
    /\ ~pollers[p].cancelling
    /\ k <= Cardinality(FreeBroadcasts)
    /\ k > 0 => pollers[p].pc \in {"price", "book"}
    /\ pollers' = [pollers EXCEPT ![p].pc = NextPc(Source(pollers[p].m), @)]
    /\ broadcasts' = create_tasks(broadcasts, pollers[p].m, k)
    /\ msgs' = [b \in BIds |-> IF broadcasts'[b] # broadcasts[b] THEN Absent ELSE msgs[b]]
    /\ failed' = [failed EXCEPT ![p] = @ /\ pollers[p].pc \notin {"price", "book"}]
    /\ UNCHANGED search
    /\ UNCHANGED <<markets, subscriptions, polling_tasks, handlers>>
    /\ UNCHANGED <<store, applied, received, sendq>>

\* Broadcast tasks that have not finished.
InFlight == Cardinality(BIds \ FreeBroadcasts)

\* list.sort(key=lambda x: x.p) left out: the list stays as it was built.
unsorted(levels, reverse) == levels

\* list.sort(key=lambda x: x.p, reverse=reverse): a stable sort by price,
\* ascending, or descending with equal prices left in their order.
RECURSIVE sort(_, _)
sort(levels, reverse) ==
    IF levels = <<>> THEN <<>>
    ELSE LET n == Len(levels)
             x == levels[n]
             rest == sort(SubSeq(levels, 1, n - 1), reverse)
             k == Cardinality({i \in 1..Len(rest) :
                      IF reverse THEN rest[i].p >= x.p ELSE rest[i].p <= x.p})
         IN  SubSeq(rest, 1, k) \o <<x>> \o SubSeq(rest, k + 1, Len(rest))

\* float(l[0])/100 and 1-float(l[0])/100 for a price l[0] in cents, in units
\* of half a cent.
yes_price(cents) == 2 * cents
no_price(cents) == 200 - 2 * cents

\* [OrderBookLevel(p=..., s=float(l[1])) for l in data.get(side, [])
\*  if l and len(l) >= 2], the price taken as the side takes it.
levels_of(raw, side) ==
    LET full == SelectSeq(raw, LAMBDA l : Len(l) >= 2)
        price(cents) == IF side = "yes" THEN yes_price(cents) ELSE no_price(cents)
    IN  [i \in 1..Len(full) |-> [p |-> price(full[i][1]), s |-> full[i][2]]]

\* The "orderbook" object of a Kalshi response: under "yes" and "no" lists of
\* [price in cents, size].
KalshiBooks == {[yes |-> <<<<40, 5>>>>, no |-> <<<<40, 5>>>>],
                [yes |-> <<>>, no |-> <<<<40, 7>>>>]}

\* What GET /markets/{source_id}/orderbook answers: a status and, under the
\* status 200, the order book.
Responses == [status : {200, 500}, orderbook : KalshiBooks]

\* KalshiConnector.poll_orderbook from the arrival of the response on, at the
\* time ts: the stores as the calls leave them and the messages the calls
\* return, in call order.
poll_orderbook(ob, qh, market, resp, ts) ==
    IF resp.status # 200 THEN [qh |-> qh, ob |-> ob, out |-> <<>>]
    ELSE LET yes_bids == sort(levels_of(resp.orderbook.yes, "yes"), TRUE)
             yes_asks == sort(levels_of(resp.orderbook.no, "no"), FALSE)
             oid == market.outcomes[1]
             r1 == update_orderbook(ob, market.market_id, oid, yes_bids, yes_asks, ts)
         IN  IF yes_bids # <<>> /\ yes_asks # <<>>
             THEN LET r2 == update_quote(qh, market.market_id, oid,
                                (yes_bids[1].p + yes_asks[1].p) \div 2,
                                yes_bids[1].p, yes_asks[1].p, ts)
                  IN  [qh |-> r2.qh, ob |-> r1.ob, out |-> <<r1.msg, r2.msg>>]
             ELSE [qh |-> qh, ob |-> r1.ob, out |-> <<r1.msg>>]

\* The body of a CLOB /book response: under "bids" and "asks" lists of
\* {"price", "size"}; a level whose price is not above 0 is left out.
book_levels(raw) ==
    LET priced == SelectSeq(raw, LAMBDA x : x.price > 0)
    IN  [i \in 1..Len(priced) |-> [p |-> priced[i].price, s |-> priced[i].size]]

\* One round of the loop of PolymarketConnector.poll_orderbook, for the
\* outcome token_id, from the arrival of the response on.  The ids of the
\* model stand for CLOB token ids and condition ids, which are longer than
\* the 10 characters the loop asks for.
polymarket_poll_orderbook(ob, qh, market_id, token_id, resp, ts) ==
    IF resp.status # 200 THEN [qh |-> qh, ob |-> ob, out |-> <<>>]
    ELSE LET bids == sort(book_levels(resp.book.bids), TRUE)
             asks == sort(book_levels(resp.book.asks), FALSE)
             r1 == update_orderbook(ob, market_id, token_id, bids, asks, ts)
             quoted(mid, bid, ask) ==
                 LET r2 == update_quote(qh, market_id, token_id, mid, bid, ask, ts)
                 IN  [qh |-> r2.qh, ob |-> r1.ob, out |-> <<r1.msg, r2.msg>>]
         IN  IF bids # <<>> /\ asks # <<>>
             THEN quoted((bids[1].p + asks[1].p) \div 2, bids[1].p, asks[1].p)
             ELSE IF bids # <<>> THEN quoted(bids[1].p, bids[1].p, bids[1].p)
             ELSE IF asks # <<>> THEN quoted(asks[1].p, asks[1].p, asks[1].p)
             ELSE [qh |-> qh, ob |-> r1.ob, out |-> <<r1.msg>>]

\* A wiring in which only the last update of a poll is broadcast.
side_effects_last(bcs, payloads, out) ==
    IF out = <<>> THEN [msgs |-> payloads, bcs |-> bcs]
    ELSE LET b == MinOf({x \in BIds : bcs[x].pc \in {"idle", "done", "raised"}})
             msg == out[Len(out)]
         IN  [msgs |-> [payloads EXCEPT ![b] = msg],
              bcs |-> [bcs EXCEPT ![b] = NewBroadcast(msg.market_id)]]

\* side_effect_quote / side_effect_ob for the messages out, in call order:
\* asyncio.create_task(sub_manager.broadcast(msg.market_id, msg.model_dump())).
RECURSIVE side_effects(_, _, _)
side_effects(bcs, payloads, out) ==
    IF out = <<>> THEN [msgs |-> payloads, bcs |-> bcs]
    ELSE LET b == MinOf({x \in BIds : bcs[x].pc \in {"idle", "done", "raised"}})
         IN  side_effects([bcs EXCEPT ![b] = NewBroadcast(Head(out).market_id)],
                          [payloads EXCEPT ![b] = Head(out)], Tail(out))

\* The order-book fetch of a Kalshi poll returns resp: the state store is
\* updated and every update creates its broadcast task.  The clock the
\* updates read has moved on since it was read last.
PollerUpdate(p, resp) ==
    /\ pollers[p].pc = "book"
    /\ ~pollers[p].cancelling
    /\ Source(pollers[p].m) = "kalshi"
    /\ pollers[p].m \in catalog
    /\ LET r == poll_orderbook(latest_orderbooks, quote_history,
                               markets[pollers[p].m], resp, now + 1)
           t == side_effects(broadcasts, msgs, r.out)
       IN  /\ Len(r.out) <= Cardinality(FreeBroadcasts)
           /\ applied + Len(r.out) <= MaxApplied
           /\ latest_orderbooks' = r.ob
           /\ quote_history' = r.qh
           /\ broadcasts' = t.bcs
           /\ msgs' = t.msgs
           /\ applied' = applied + Len(r.out)
           /\ now' = IF r.out = <<>> THEN now ELSE now + 1
    /\ pollers' = [pollers EXCEPT ![p].pc = NextPc(Source(pollers[p].m), @)]
    /\ failed' = [failed EXCEPT ![p] = FALSE]
    /\ UNCHANGED search
    /\ UNCHANGED <<markets, subscriptions, polling_tasks, handlers, reply,
                   received, sendq>>

----------------------------------------------------------------------------
\* The steps of the connections and of the catalog.
NextHandlers ==
    \/ \E c \in Conns, m \in Markets : Subscribe(c, m)
    \/ \E c \in Conns, m \in Markets : Unsubscribe(c, m)
    \/ \E c \in Conns : Disconnect(c)
    \/ \E c \in Conns : ReceiveFails(c)
    \/ \E c \in Conns : HandlerResume(c)

\* The steps of the broadcast tasks.
NextBroadcasts ==
    \/ \E b \in BIds : BroadcastStart(b)
    \/ \E b \in BIds, ok \in BOOLEAN : BroadcastSend(b, ok)
    \/ \E b \in BIds : BroadcastResume(b)

Next ==
    \/ \E m \in Markets : UpdateMarket(m)
    \/ NextHandlers
    \/ NextBroadcasts
    \/ \E p \in PIds : PollerCancelled(p)
    \/ \E p \in PIds, k \in 0..MaxUpdates : PollerStep(p, k)

\* The whole system.
Spec == Init /\ [][Next]_vars

\* The registry and the poll loops while no upstream fetch brings an update
\* (no broadcast task is created): both markets can enter the catalog.
NextRegistry ==
    \/ \E m \in Markets : UpdateMarket(m)
    \/ NextHandlers
    \/ \E p \in PIds : PollerCancelled(p)
    \/ \E p \in PIds : PollerStep(p, 0)
    \/ \E p \in PIds, failure \in Failures : PollerFails(p, failure)

SpecRegistry == Init /\ [][NextRegistry]_vars

\* SpecRegistry under the event loop's scheduling: a task that is ready runs
\* and a timer or an upstream response arrives.  Nothing obliges a client to
\* send a message or to close.
FairRegistry ==
    /\ SpecRegistry
    /\ \A c \in Conns : WF_vars(HandlerResume(c))
    /\ \A p \in PIds : WF_vars(PollerCancelled(p))
    /\ \A p \in PIds : WF_vars(PollerStep(p, 0))

\* The registry, the poll loops and the broadcasts while the catalog holds the
\* Kalshi market only: the other market id is unknown to the state store, so a
\* subscription to it is accepted and never polled.
InitBroadcast ==
    /\ markets = update_market([m \in {} |-> Absent], MarketOf("km"))
    /\ InitRegistry
    /\ search = IdleSearch
    /\ InitStore(0)
    /\ InitDelivery

NextBroadcast ==
    \/ NextHandlers
    \/ NextBroadcasts
    \/ \E p \in PIds : PollerCancelled(p)
    \/ \E p \in PIds, k \in 0..MaxUpdates :
          InFlight + k <= MaxInFlight /\ PollerStep(p, k)

SpecBroadcast == InitBroadcast /\ [][NextBroadcast]_vars

\* The same with connections that stay open and send well-formed messages:
\* subscribe, unsubscribe and broadcast by themselves.
NextFrame ==
    \/ \E c \in Conns, m \in Markets : Subscribe(c, m)
    \/ \E c \in Conns, m \in Markets : Unsubscribe(c, m)
    \/ \E c \in Conns : HandlerResume(c)
    \/ NextBroadcasts
    \/ \E p \in PIds : PollerCancelled(p)
    \/ \E p \in PIds, k \in 0..MaxUpdates :
          InFlight + k <= MaxInFlight /\ PollerStep(p, k)

SpecFrame == InitBroadcast /\ [][NextFrame]_vars

\* The application order of two messages of one key: by the time of the
\* update, and within one poll update_orderbook before update_quote.
Older(a, b) ==
    \/ a.ts < b.ts
    \/ a.ts = b.ts /\ a.type = "orderbook" /\ b.type = "quote"

\* The event loop runs ready callbacks in the order in which they were
\* scheduled: a new task takes its first step after the tasks created before
\* it, and the tasks created by one poll take their first steps one right
\* after the other.
StartsNext(b) ==
    /\ broadcasts[b].pc = "ready"
    /\ \A x \in BIds : broadcasts[x].pc = "ready" => ~Older(msgs[x], msgs[b])
StartPending ==
    \E b \in BIds, x \in BIds :
        /\ x # b
        /\ broadcasts[b].pc = "ready"
        /\ broadcasts[x].pc \notin {"idle", "ready"}
        /\ msgs[x] # Absent
        /\ msgs[x].ts = msgs[b].ts

\* The Kalshi market from the store update to the delivery, for clients that
\* stay connected and read what they are sent: its subscribers come and go,
\* its poll loop fetches order books, and every update is broadcast by a task
\* of its own, the broadcasts of successive polls running side by side.
NextDelivery ==
    \/ \E b \in BIds : StartsNext(b) /\ BroadcastStart(b)
    \/ /\ ~StartPending
       /\ \/ \E c \in Conns : Subscribe(c, "km")
          \/ \E c \in Conns : Unsubscribe(c, "km")
          \/ \E c \in Conns : HandlerResume(c)
          \/ \E b \in BIds : BroadcastSend(b, TRUE)
          \/ \E p \in PIds : PollerCancelled(p)
          \/ \E p \in PIds : PollerStep(p, 0)
          \/ \E p \in PIds, resp \in Responses : PollerUpdate(p, resp)

SpecDelivery == InitBroadcast /\ [][NextDelivery]_vars

\* The same with subscriptions to either market, a poll's order book arriving
\* when the broadcasts of the poll before have finished.
NextWiring ==
    \/ \E b \in BIds : StartsNext(b) /\ BroadcastStart(b)
    \/ /\ ~StartPending
       /\ \/ \E c \in Conns, m \in Markets : Subscribe(c, m)
          \/ \E c \in Conns, m \in Markets : Unsubscribe(c, m)
          \/ \E c \in Conns : HandlerResume(c)
          \/ \E b \in BIds : BroadcastSend(b, TRUE)
          \/ \E p \in PIds : PollerCancelled(p)
          \/ \E p \in PIds : PollerStep(p, 0)
          \/ \E p \in PIds, resp \in Responses :
                InFlight = 0 /\ PollerUpdate(p, resp)

SpecWiring == InitBroadcast /\ [][NextWiring]_vars

\* The lists of levels an upstream order book can hold on one side: none,
\* one, two in ascending and in descending order of price, and one with a
\* level that the code leaves out (too short for Kalshi, price 0 for the CLOB).
KalshiSides == {<<>>, <<<<40, 5>>>>, <<<<30, 5>>, <<40, 7>>>>,
                <<<<40, 7>>, <<30, 5>>>>, <<<<45>>, <<30, 5>>>>}
ClobSides == {<<>>, <<[price |-> 80, size |-> 5]>>,
              <<[price |-> 60, size |-> 5], [price |-> 80, size |-> 7]>>,
              <<[price |-> 80, size |-> 7], [price |-> 60, size |-> 5]>>,
              <<[price |-> 0, size |-> 1], [price |-> 60, size |-> 5]>>}
\* State-store updates the polls make in a behaviour of SpecPolls.
MaxPolled == 4
KalshiPayloads == [status : {200, 500}, orderbook : [yes : KalshiSides, no : KalshiSides]]
ClobPayloads == [status : {200, 500}, book : [bids : ClobSides, asks : ClobSides]]

\* KalshiConnector.poll_orderbook(market_id), from the arrival of resp on.
PollKalshi(market_id, resp) ==
    /\ market_id \in catalog
    /\ markets[market_id].source = "kalshi"
    /\ LET r == poll_orderbook(latest_orderbooks, quote_history,
                               markets[market_id], resp, now)
       IN  /\ applied + Len(r.out) <= MaxPolled
           /\ latest_orderbooks' = r.ob
           /\ quote_history' = r.qh
           /\ applied' = applied + Len(r.out)
    /\ UNCHANGED <<rvars, now, reply, msgs, received, sendq, failed, search>>

\* One round of the loop of PolymarketConnector.poll_orderbook(market_id),
\* for the i-th outcome of the market, from the arrival of resp on.
PollPolymarket(market_id, i, resp) ==
    /\ market_id \in catalog
    /\ i \in 1..Len(markets[market_id].outcomes)
    /\ LET r == polymarket_poll_orderbook(latest_orderbooks, quote_history,
                    market_id, markets[market_id].outcomes[i], resp, now)
       IN  /\ applied + Len(r.out) <= MaxPolled
           /\ latest_orderbooks' = r.ob
           /\ quote_history' = r.qh
           /\ applied' = applied + Len(r.out)
    /\ UNCHANGED <<rvars, now, reply, msgs, received, sendq, failed, search>>

\* The order-book polls of both connectors on the state store, the Kalshi
\* market and the Polymarket market in the catalog.
NextPolls ==
    \/ Tick
    \/ \E resp \in KalshiPayloads : PollKalshi("km", resp)
    \/ \E i \in 1..2, resp \in ClobPayloads : PollPolymarket("pm", i, resp)

\* The state store by itself, called for the keys of both markets, which are
\* in the catalog; the registry and the tasks stand still.
InitStoreSlice ==
    /\ markets = update_market(update_market([m \in {} |-> Absent], MarketOf("km")),
                               MarketOf("pm"))
    /\ InitRegistry
    /\ search = IdleSearch
    /\ InitStore(0)
    /\ InitDelivery

NextStore ==
    \/ Tick
    \/ \E k \in StoreKeys, q \in Quotes : UpdateQuote(k[1], k[2], q)
    \/ \E k \in StoreKeys, book \in Books : UpdateOrderbook(k[1], k[2], book)
    \/ \E k \in StoreKeys : GetHistory(k[1], k[2])
    \/ \E k \in StoreKeys : GetOrderbook(k[1], k[2])
    \/ \E k \in StoreKeys, range \in Ranges : GetMarketHistory(k[1], k[2], range)

SpecStore == InitStoreSlice /\ [][NextStore]_vars

SpecPolls == InitStoreSlice /\ [][NextPolls]_vars

----------------------------------------------------------------------------
\* search_markets of both connectors.  The strings of the model are in lower
\* case, so that lower() and upper() change nothing.

\* q in s, for strings.
Contains(q, s) ==
    \E i \in 1..(Len(s) - Len(q) + 1) : SubSeq(s, i, i + Len(q) - 1) = q

\* The searches of a run of the model, and the pages upstream has for a scan.
MaxSearches == 2
MaxPages == 2

\* max_pages of the Kalshi scan, and the most results a search returns.
max_pages == 20
max_results == 100

\* The whole list.
whole(list, n) == list

\* list[:n]
first(list, n) == SubSeq(list, 1, IF Len(list) < n THEN Len(list) ELSE n)

\* The market ids of the searches of the model, in the order in which
\* get_all_markets lists them.
BulkIds == [i \in 1..(max_results + 1) |-> "b" \o ToString(i)]
IdOrder == <<"km", "kx2", "kx3", "pm", "p2", "p3">> \o BulkIds

\* StateManager.get_all_markets restricted to the ids in S; the insertion
\* order of the dict is not followed, the list comes in one fixed order.
get_all_markets(ms, S) ==
    LET ids == SelectSeq(IdOrder, LAMBDA m : m \in S)
    IN  [i \in 1..Len(ids) |-> ms[ids[i]]]

\* Step 1 of search_markets: the cached markets of the source whose title
\* (for Kalshi also the ticker) contains the query.
cached(ms, source, query) ==
    get_all_markets(ms, {m \in DOMAIN ms :
        /\ ms[m].source = source
        /\ \/ Contains(query, ms[m].title)
           \/ source = "kalshi" /\ Contains(query, m)})

\* The loop over the markets of an event, on the markets as normalized:
\* one that is not None and not in seen_ids is upserted and appended, and the
\* hundredth result ends the loop.  st holds results, seen_ids, dropped and
\* the catalog.
RECURSIVE upsert_all(_, _)
upsert_all(st, normalized) ==
    IF normalized = <<>> THEN st
    ELSE LET m == Head(normalized) IN
         IF m # Absent /\ m.market_id \notin st.seen_ids
         THEN LET st2 == [st EXCEPT !.results = Append(@, m),
                                    !.seen_ids = @ \cup {m.market_id},
                                    !.markets = update_market(@, m)]
              IN  IF Len(st2.results) >= max_results THEN st2
                  ELSE upsert_all(st2, Tail(normalized))
         ELSE upsert_all([st EXCEPT !.dropped = @ \/ m = Absent],
                         Tail(normalized))

\* An item of "events" that is not an object: event.get raises.
Malformed == [type |-> "str"]

\* The loop over the events of a response.  Kalshi takes the events whose
\* title contains the query; a hundred results end the loop; an event that
\* is not an object raises.
RECURSIVE scan_events(_, _, _, _)
scan_events(st, source, query, events) ==
    IF events = <<>> THEN st
    ELSE LET event == Head(events) IN
         IF event = Malformed THEN [st EXCEPT !.failure = "malformed"]
         ELSE LET normalized == [i \in 1..Len(event.markets) |->
                                   IF source = "kalshi"
                                   THEN normalize_market(event.markets[i])
                                   ELSE normalize_event_market(event.markets[i])]
                  st2 == IF source = "kalshi" /\ ~Contains(query, event.title)
                         THEN st ELSE upsert_all(st, normalized)
              IN  IF Len(st2.results) >= max_results THEN st2
                  ELSE scan_events(st2, source, query, Tail(events))

\* return results[:100]; failure is the upstream failure that ended the
\* search ("-" for none), raised whether the call raised it.
Return(s, failure, raised) ==
    /\ reply' = [type |-> "search_markets", source |-> s.source, query |-> s.query,
                 results |-> first(s.results, max_results),
                 dropped |-> s.dropped, raised |-> raised, failure |-> failure]
    /\ search' = [IdleSearch EXCEPT !.calls = s.calls]

\* The while condition of the Kalshi scan: fetch a page, or return.
Scan(s) ==
    IF s.pages_scanned < max_pages /\ Len(s.results) < max_results
    THEN search' = [s EXCEPT !.pc = "scan"] /\ UNCHANGED reply
    ELSE Return(s, "-", FALSE)

\* search_markets(query) of the connector of source, up to its first await.
SearchStart(source, query) ==
    /\ search.pc = "idle"
    /\ search.calls < MaxSearches
    /\ LET list == cached(markets, source, query)
           s == [source |-> source, pc |-> "public", query |-> query,
                 results |-> list,
                 seen_ids |-> {list[i].market_id : i \in 1..Len(list)},
                 pages_scanned |-> 0, calls |-> search.calls + 1, dropped |-> FALSE]
       IN  IF source = "polymarket" THEN search' = s /\ UNCHANGED reply
           ELSE IF SubSeq(query, 1, 2) = "kx" \/ Contains("-", query)
           THEN search' = [s EXCEPT !.pc = "lookup"] /\ UNCHANGED reply
           ELSE Scan(s)
    /\ UNCHANGED <<rvars, quote_history, latest_orderbooks, now, delivery, failed>>

\* What the responses of the model carry: the upstream failure ("-" for a
\* 200 with a payload of the right form), and the payload.
Records(source) ==
    IF source = "kalshi"
    THEN {[ticker |-> "km", status |-> "active", title |-> "t1", yes_bid |-> 40, yes_ask |-> 60],
          [ticker |-> "km", status |-> "active", title |-> "t2", yes_bid |-> 40, yes_ask |-> 60],
          [ticker |-> "kx2", status |-> "open", title |-> "t1", yes_bid |-> 0, yes_ask |-> 60],
          [ticker |-> "-", status |-> "active", title |-> "t1", yes_bid |-> 40, yes_ask |-> 60],
          [ticker |-> "kx3", status |-> "closed", title |-> "t1", yes_bid |-> 40, yes_ask |-> 60]}
    ELSE {[active |-> TRUE, closed |-> FALSE, conditionId |-> "pm", question |-> "t1",
           clobTokenIds |-> "[\"tok1\", \"tok2\"]"],
          [active |-> TRUE, closed |-> FALSE, conditionId |-> "pm", question |-> "t2",
           clobTokenIds |-> "[\"tok1\", \"tok2\"]"],
          [active |-> TRUE, closed |-> FALSE, conditionId |-> "p2", question |-> "t1",
           clobTokenIds |-> "[]"],
          [active |-> TRUE, closed |-> FALSE, conditionId |-> "-", question |-> "t1",
           clobTokenIds |-> "[]"],
          [active |-> TRUE, closed |-> TRUE, conditionId |-> "p3", question |-> "t1",
           clobTokenIds |-> "[]"]}

\* The events of a response: an event with up to two markets, by itself or
\* followed by an item that is not an object.
Events(source) ==
    LET batches == UNION {[1..n -> Records(source)] : n \in 0..2}
        events == [markets : batches, title : {"t1"}]
                      \cup [markets : [1..1 -> Records(source)], title : {"zz"}]
    IN  {<<>>} \cup {<<e>> : e \in events} \cup {<<e, Malformed>> : e \in events}

\* The pages upstream may answer with after `scanned` pages.
Pages(source, scanned) ==
    [failure : Failures, events : {<<>>}, cursor : {FALSE}]
        \cup [failure : {"-"}, events : Events(source),
              cursor : IF scanned + 1 < MaxPages THEN BOOLEAN ELSE {FALSE}]

\* Step 2 of the Kalshi search, GET /markets/{q_upper}: a market that is not
\* None nor in seen_ids is upserted and appended; whatever is raised is
\* dropped; then the scan.
KalshiLookup(failure, market_data) ==
    /\ search.pc = "lookup"
    /\ \A exc \in Raised(failure) : Catches(Handler("kalshi", "lookup"), exc)
    /\ LET st == upsert_all([markets |-> markets, results |-> search.results,
                             seen_ids |-> search.seen_ids, dropped |-> search.dropped],
                            IF failure = "-" /\ market_data # Absent
                            THEN <<normalize_market(market_data)>> ELSE <<>>)
       IN  /\ markets' = st.markets
           /\ Scan([search EXCEPT !.results = st.results, !.seen_ids = st.seen_ids,
                                  !.dropped = st.dropped])
    /\ UNCHANGED <<subscriptions, polling_tasks, pollers, handlers, broadcasts>>
    /\ UNCHANGED <<quote_history, latest_orderbooks, now, delivery, failed>>

\* The await of an upstream page returns or raises: a page of the Kalshi scan
\* (GET /events), the one response of the Polymarket /public-search.  What
\* is raised and caught ends the search with the results so far, as does a
\* status other than 200; what is not caught leaves the call.
SearchPage(page) ==
    /\ search.pc \in {"scan", "public"}
    /\ LET caught == \A exc \in Raised(page.failure) :
                         Catches(Handler(search.source, search.pc), exc)
           st == scan_events([markets |-> markets, results |-> search.results,
                              seen_ids |-> search.seen_ids, dropped |-> search.dropped,
                              failure |-> page.failure],
                             search.source, search.query, page.events)
           s == [search EXCEPT !.results = st.results, !.seen_ids = st.seen_ids,
                               !.dropped = st.dropped, !.pages_scanned = @ + 1]
       IN  /\ markets' = st.markets
           /\ IF st.failure # "-" THEN Return(s, st.failure, ~caught)
              ELSE IF search.pc = "public" \/ ~page.cursor
                     \/ Len(s.results) >= max_results
              THEN Return(s, "-", FALSE)
              ELSE Scan(s)
    /\ UNCHANGED <<subscriptions, polling_tasks, pollers, handlers, broadcasts>>
    /\ UNCHANGED <<quote_history, latest_orderbooks, now, delivery, failed>>

\* The catalogs a search starts from: empty, or one short of and one above a
\* hundred markets of one source, b1, b2, ... under the title "t1", which the
\* searches before the last have left.
Bulk(source, n) ==
    [m \in {BulkIds[i] : i \in 1..n} |->
        IF source = "kalshi"
        THEN normalize_market([ticker |-> m, status |-> "active", title |-> "t1",
                               yes_bid |-> 40, yes_ask |-> 60])
        ELSE normalize_event_market([active |-> TRUE, closed |-> FALSE,
                 conditionId |-> m, question |-> "t1", clobTokenIds |-> "[]"])]

InitSearch ==
    /\ \/ markets = [m \in {} |-> Absent] /\ search = IdleSearch
       \/ /\ markets \in {Bulk("kalshi", 99), Bulk("polymarket", 101)}
          /\ search = [IdleSearch EXCEPT !.calls = MaxSearches - 1]
    /\ InitRegistry
    /\ InitStore(0)
    /\ InitDelivery

Queries == {"t1", "kx2"}

NextSearch ==
    \/ \E source \in {"kalshi", "polymarket"}, query \in Queries :
          SearchStart(source, query)
    \/ \E failure \in Failures \cup {"-"}, market_data \in Records("kalshi") \cup {Absent} :
          KalshiLookup(failure, market_data)
    \/ \E page \in Pages(search.source, search.pages_scanned) : SearchPage(page)

SpecSearch == InitSearch /\ [][NextSearch]_vars

\* The quote history of one key, from one point short of full onwards.
InitHistory ==
    /\ markets = update_market([m \in {} |-> Absent], MarketOf("km"))
    /\ InitRegistry
    /\ search = IdleSearch
    /\ InitStore(MAX_HISTORY_POINTS - 1)
    /\ InitDelivery

NextHistory ==
    \/ Tick
    \/ \E q \in Quotes : UpdateQuote(HistKey[1], HistKey[2], q)
    \/ GetHistory(HistKey[1], HistKey[2])

SpecHistory == InitHistory /\ [][NextHistory]_vars

\* The catalog by itself, fed by the searches of both connectors.
NextCatalog ==
    \/ Tick
    \/ \E data \in KalshiRecords : IngestKalshi(data)
    \/ \E market_data \in PolyRecords : IngestPolymarket(market_data)
    \/ \E data \in PolyRecords : NormalizeLegacy(data)

SpecCatalog == Init /\ [][NextCatalog]_vars

\* A client that reads so slowly, or not at all, that a send to it need never
\* complete; a send to any other connection returns or raises in the end.
SlowConn == "c2"
SendCompletes(b) ==
    /\ broadcasts[b].pc = "send"
    /\ \/ broadcasts[b].cur # SlowConn
       \/ handlers[SlowConn].pc \in {"closed", "crashed"}
    /\ \E ok \in BOOLEAN : BroadcastSend(b, ok)

\* SpecBroadcast under the event loop's scheduling: a task that is ready
\* runs, a timer or an upstream response arrives, and a send to a connection
\* other than the slow one, or to a connection that has closed, completes.
\* Nothing obliges a client to send a message or to close.
FairBroadcast ==
    /\ SpecBroadcast
    /\ \A b \in BIds : WF_vars(BroadcastStart(b))
    /\ \A b \in BIds : WF_vars(SendCompletes(b))
    /\ \A b \in BIds : WF_vars(BroadcastResume(b))
    /\ \A c \in Conns : WF_vars(HandlerResume(c))
    /\ \A p \in PIds : WF_vars(PollerCancelled(p))
    /\ \A p \in PIds : WF_vars(PollerStep(p, 0))

----------------------------------------------------------------------------
\* What the claims speak about.

\* The subscriber set of m, empty when m has no entry.
Subscribers(m) == IF Has(subscriptions, m) THEN Get(subscriptions, m) ELSE {}

\* The tasks suspended inside unsubscribe for m, in `await task`: connection
\* handlers and broadcasts.
StoppingH(m) == {c \in Conns : handlers[c].pc = "stop_wait" /\ handlers[c].m = m}
StoppingB(m) == {b \in BIds : broadcasts[b].pc = "stop_wait" /\ broadcasts[b].m = m}
Stopping(m) == StoppingH(m) # {} \/ StoppingB(m) # {}

\* C1: a market whose subscriber set is empty or absent has no running poller
\* task, in every state in which no unsubscribe for that market is still
\* waiting for the poller to stop.
C1_NoPollerWithoutSubscribers ==
    \A m \in Markets :
        (Subscribers(m) = {} /\ ~Stopping(m)) => Live(pollers, m) = {}

\* C2: at most one unfinished poller task exists per market id.
C2_AtMostOnePoller ==
    \A m \in Markets : Cardinality(Live(pollers, m)) <= 1

\* C3: for a market in the catalog with no subscribers, a subscribe starts
\* exactly one poller task and one poller runs for the market afterwards; a
\* subscribe by another connection while a subscriber remains and one poller
\* runs starts none.
C3_FirstSubscribeStartsOnePoller ==
    [][\A c \in Conns, m \in Markets :
          (Subscribe(c, m) /\ m \in catalog) =>
              /\ Subscribers(m) = {} =>
                    /\ Cardinality(Live(pollers', m) \ Live(pollers, m)) = 1
                    /\ Cardinality(Live(pollers', m)) = 1
              /\ (Subscribers(m) \ {c} # {} /\ Cardinality(Live(pollers, m)) = 1) =>
                    Live(pollers', m) = Live(pollers, m)]_vars

\* C4: no subscribe for a market is accepted while the cancellation of the
\* market's poller has been requested and is not yet confirmed.
C4_NoSubscribeWhileCancelling ==
    [][\A c \in Conns, m \in Markets :
          (Subscribe(c, m) /\ m \in DOMAIN polling_tasks) =>
              ~pollers[polling_tasks[m]].cancelling]_vars

\* A step in which an unsubscribe removes the last subscriber of m: the set
\* becomes empty or leaves the dict, and not by a task that resumes from its
\* wait for m's poller.
RemovesLast(m) ==
    /\ Subscribers(m) # {}
    /\ Subscribers(m)' = {}
    /\ StoppingH(m) \subseteq StoppingH(m)'
    /\ StoppingB(m) \subseteq StoppingB(m)'

\* C5: an unsubscribe that removes the last subscriber of m requests the
\* cancellation of m's recorded poller and, while that task is unfinished,
\* suspends with handle and entry still in place; it resumes only once the
\* task has finished; and when it returns, m has neither a subscriber-set
\* entry nor a poller handle.
C5_UnsubscribeWaitsForPoller ==
    [][\A m \in Markets :
        /\ RemovesLast(m) =>
             IF m \in DOMAIN polling_tasks /\ pollers[polling_tasks[m]].pc # "done"
             THEN /\ pollers'[polling_tasks[m]].cancelling
                  /\ m \in DOMAIN polling_tasks'
                  /\ polling_tasks'[m] = polling_tasks[m]
                  /\ Has(subscriptions', m)
                  /\ \/ \E c \in StoppingH(m)' \ StoppingH(m) :
                           handlers'[c].p = polling_tasks[m]
                     \/ \E b \in StoppingB(m)' \ StoppingB(m) :
                           broadcasts'[b].p = polling_tasks[m]
             ELSE /\ m \notin DOMAIN polling_tasks'
                  /\ ~Has(subscriptions', m)
        /\ \A c \in StoppingH(m) \ StoppingH(m)' :
             /\ pollers[handlers[c].p].pc = "done"
             /\ handlers'[c].pc # "crashed" =>
                  (m \notin DOMAIN polling_tasks' /\ ~Has(subscriptions', m))
        /\ \A b \in StoppingB(m) \ StoppingB(m)' :
             /\ pollers[broadcasts[b].p].pc = "done"
             /\ broadcasts'[b].pc # "raised" =>
                  (m \notin DOMAIN polling_tasks' /\ ~Has(subscriptions', m))]_vars

\* C5, reached: the poller has finished and the unsubscribe that waits for it
\* has not resumed yet; handle and emptied entry are still there.
C5_Witness ==
    \E c \in Conns :
        /\ handlers[c].pc = "stop_wait"
        /\ pollers[handlers[c].p].pc = "done"
        /\ handlers[c].m \in DOMAIN polling_tasks
        /\ polling_tasks[handlers[c].m] = handlers[c].p
        /\ Has(subscriptions, handlers[c].m)
        /\ Subscribers(handlers[c].m) = {}

\* C6: a poller task that runs with a cancel request pending, at whichever
\* await it is suspended, ends there: it does not go on to another await.
C6_CancelEndsPoller ==
    [][\A p \in PIds :
          (pollers[p].cancelling /\ pollers'[p] # pollers[p]) =>
              pollers'[p].pc = "done"]_vars

\* C7: a broadcast over a subscriber set of two connections that stays as it
\* was while the broadcast runs, with one send that succeeds and one that
\* fails, delivers to the first, removes the second from the market's
\* subscriber set, and ends without an exception.
C7_BroadcastEvictsDead ==
    [][\A b \in BIds :
        LET r == broadcasts[b] IN
        (/\ r.pc = "send"
         /\ broadcasts'[b].pc # "send"
         /\ r.live
         /\ Get(subscriptions, r.m) = r.set0
         /\ Cardinality(r.set0) = 2
         /\ Visited(r) = r.set0
         /\ Len(broadcasts'[b].dead) + Len(r.dead) + Cardinality(r.delivered) = 2)
        => /\ broadcasts'[b].pc = "done"
           /\ Cardinality(broadcasts'[b].delivered) = 1
           /\ Len(broadcasts'[b].dead) = 1
           /\ Subscribers(r.m)' = broadcasts'[b].delivered
           /\ broadcasts'[b].dead[1] \in r.set0 \ Subscribers(r.m)']_vars

\* C7, reached: a finished broadcast that found two subscribers, delivered to
\* one and evicted the other.
C7_Witness ==
    \E b \in BIds :
        /\ broadcasts[b].pc = "done"
        /\ Cardinality(broadcasts[b].set0) = 2
        /\ Cardinality(broadcasts[b].delivered) = 1
        /\ Len(broadcasts[b].dead) = 1
        /\ Subscribers("km") = broadcasts[b].delivered

\* C8: when a broadcast returns, every connection whose send failed in it is
\* a member of no market's subscriber set.
C8_DeadEvictedEverywhere ==
    [][\A b \in BIds :
        (broadcasts[b].pc \in {"send", "stop_wait"} /\ broadcasts'[b].pc = "done")
        => \A i \in 1..Len(broadcasts'[b].dead), m \in Markets :
              broadcasts'[b].dead[i] \notin Subscribers(m)']_vars

\* C9: no exception escapes broadcast.
C9_BroadcastNeverRaises ==
    \A b \in BIds : broadcasts[b].pc # "raised"

\* C10: a broadcast that is suspended in a send to one connection while
\* another subscriber of the market has not been served yet gets on to that
\* subscriber in the end (or the subscriber leaves the set first).
C10_SlowClientDoesNotBlock ==
    \A b \in BIds, c \in Conns :
        (/\ broadcasts[b].pc = "send"
         /\ broadcasts[b].cur # c
         /\ c \in broadcasts[b].set0 \ Visited(broadcasts[b])
         /\ c \in Subscribers(broadcasts[b].m))
        ~> (\/ broadcasts[b].pc # "send"
            \/ c \in Visited(broadcasts[b])
            \/ c \notin Subscribers(broadcasts[b].m))

\* C11: when unsubscribe_from_all(c) returns, c is a member of no market's
\* subscriber set; every market whose only subscriber was c when the call
\* reached it has neither an entry nor a poller handle then, and the poller
\* that was recorded for it has finished; a call that has to wait for such a
\* poller has requested its cancellation.
C11_UnsubscribeFromAllLeavesNoMembership ==
    [][\A c \in Conns :
        LET h == handlers[c]
            began == h.pc = "recv" /\ handlers'[c].pc \in {"closed", "stop_wait"}
                        /\ handlers'[c].all
            resumed == h.pc = "stop_wait" /\ h.all /\ handlers'[c] # h
            returned == (began \/ resumed) /\ handlers'[c].pc = "closed"
            waits == (began \/ resumed) /\ handlers'[c].pc = "stop_wait"
        IN  /\ returned =>
                /\ \A m \in Markets : c \notin Subscribers(m)'
                /\ \A m \in Markets : Subscribers(m) = {c} =>
                      /\ ~Has(subscriptions', m)
                      /\ m \notin DOMAIN polling_tasks'
                      /\ m \in DOMAIN polling_tasks =>
                            pollers[polling_tasks[m]].pc = "done"
            /\ (resumed /\ handlers'[c].pc # "crashed") =>
                /\ pollers[h.p].pc = "done"
                /\ ~Has(subscriptions', h.m) \/ handlers'[c].m = h.m
                /\ h.m \notin DOMAIN polling_tasks' \/ handlers'[c].m = h.m
            /\ waits =>
                /\ pollers'[handlers'[c].p].cancelling
                /\ \A m \in Markets :
                      m = handlers'[c].m => Subscribers(m)' = {}]_vars

\* C11, reached: unsubscribe_from_all(c) has emptied one market, its poller
\* has finished, and the call is about to go on to another market that c is
\* subscribed to.
C11_Witness ==
    \E c \in Conns :
        /\ handlers[c].pc = "stop_wait"
        /\ handlers[c].all
        /\ pollers[handlers[c].p].pc = "done"
        /\ handlers[c].rest # <<>>
        /\ c \in Subscribers(Head(handlers[c].rest))

\* C12: a connection whose receive loop has ended, in whichever way (the
\* client disconnected, or an exception left the loop), is in no market's
\* subscriber set in the end.
C12_ClosedConnectionLeavesAllSets ==
    \A c \in Conns :
        (\/ handlers[c].pc \in {"closed", "crashed"}
         \/ handlers[c].pc = "stop_wait" /\ handlers[c].all)
        ~> (\A m \in Markets : c \notin Subscribers(m))

\* C13: a subscribe for a market id that is not in the catalog adds the
\* connection to the market's subscriber set and returns to the receive loop
\* without an error; it creates no poller task and records no poller handle
\* for the market.
C13_UnknownMarketSubscribeStartsNothing ==
    [][\A c \in Conns, m \in Markets :
          (Subscribe(c, m) /\ m \notin catalog) =>
              /\ c \in Subscribers(m)'
              /\ Subscribers(m)' = Subscribers(m) \cup {c}
              /\ handlers'[c].pc = "recv"
              /\ m \notin DOMAIN polling_tasks'
              /\ pollers' = pollers]_vars

\* C13, reached: a connection is subscribed to a market that is not in the
\* catalog and is back in its receive loop; the market has no poller handle.
C13_Witness ==
    \E c \in Conns, m \in Markets :
        /\ m \notin catalog
        /\ c \in Subscribers(m)
        /\ handlers[c].pc = "recv"
        /\ m \notin DOMAIN polling_tasks

\* C16: the quote history of a key never holds more than 3600 points; an
\* update_quote appends its point at the end, and on a full buffer drops
\* exactly the oldest point, the others staying in their order.
C16_HistoryIsBoundedFifo ==
    /\ [](\A k \in DOMAIN quote_history : Len(quote_history[k]) <= 3600)
    /\ [][\A k \in StoreKeys, q \in Quotes :
            UpdateQuote(k[1], k[2], q) =>
                LET h == get_history(quote_history, k[1], k[2])
                    h2 == get_history(quote_history', k[1], k[2])
                    point == [ts |-> now, mid |-> q.mid, bid |-> q.bid, ask |-> q.ask]
                IN  /\ Len(h) < 3600 => h2 = Append(h, point)
                    /\ Len(h) = 3600 => h2 = Append(Tail(h), point)
                    /\ \A j \in DOMAIN quote_history \ {Key(k[1], k[2])} :
                          quote_history'[j] = quote_history[j]]_vars

\* C16, reached: a full buffer whose oldest point has been evicted: the point
\* recorded first is gone and the point recorded second is now the oldest.
C16_Witness ==
    \E k \in DOMAIN quote_history :
        /\ Len(quote_history[k]) = 3600
        /\ quote_history[k][1] = Recorded(2)[2]
        /\ quote_history[k][3600].ts >= 3599

\* What update_orderbook stores for a call at the time now.
Snapshot(market_id, outcome_id, book) ==
    [market_id |-> market_id, outcome_id |-> outcome_id, ts |-> now,
     bids |-> book.bids, asks |-> book.asks]

\* C17: get_orderbook is absent for a key never updated; an update_orderbook
\* makes get_orderbook of its key return exactly the snapshot of that call,
\* whatever was stored before; nothing else changes what get_orderbook returns.
C17_OrderbookLastWriteWins ==
    /\ \A k \in StoreKeys : get_orderbook(latest_orderbooks, k[1], k[2]) = Absent
    /\ [][\A k \in StoreKeys :
            LET after == get_orderbook(latest_orderbooks', k[1], k[2])
                before == get_orderbook(latest_orderbooks, k[1], k[2])
            IN  IF \E book \in Books : UpdateOrderbook(k[1], k[2], book)
                THEN \E book \in Books :
                        /\ UpdateOrderbook(k[1], k[2], book)
                        /\ after = Snapshot(k[1], k[2], book)
                ELSE after = before]_vars

\* C17, reached: two update_orderbook calls for one key and nothing else
\* stored; get_orderbook has returned the snapshot of the second call.
C17_Witness ==
    /\ applied = 2
    /\ DOMAIN quote_history = {}
    /\ Cardinality(DOMAIN latest_orderbooks) = 1
    /\ reply.type = "get_orderbook"
    /\ reply.book # Absent
    /\ reply.book.bids = <<>>
    /\ reply.book = get_orderbook(latest_orderbooks, reply.market_id, reply.outcome_id)

\* C18: an ingest of an upstream record that normalizes to a Market leaves
\* exactly one catalog entry under the market_id of the normalization, equal
\* to it field by field, and changes no other entry; ingesting again the
\* record ingested last changes nothing.
C18_IngestIsIdempotentUpsert ==
    [][\A data \in KalshiRecords \cup PolyRecords :
          LET market == IF data \in KalshiRecords THEN normalize_market(data)
                        ELSE normalize_event_market(data)
              step == IF data \in KalshiRecords THEN IngestKalshi(data)
                      ELSE IngestPolymarket(data)
          IN  (step /\ market # Absent) =>
                  /\ DOMAIN markets' = DOMAIN markets \cup {market.market_id}
                  /\ markets'[market.market_id] = market
                  /\ \A m \in DOMAIN markets \ {market.market_id} :
                        markets'[m] = markets[m]
                  /\ reply = market => markets' = markets]_vars

\* C18, reached: both exchanges' markets are in the catalog, once each, under
\* titles that differ, and the record ingested last is the entry of its
\* market_id as normalized.
C18_Witness ==
    /\ DOMAIN markets = {"km", "pm"}
    /\ reply # Absent
    /\ reply.type = "Market"
    /\ markets[reply.market_id] = reply
    /\ \E m \in DOMAIN markets : markets[m].title # reply.title

\* C19: update_quote and update_orderbook return in the step in which they
\* are called, and the event returned carries the market_id, outcome_id, ts
\* and values of the last history point (of the stored snapshot) of its key.
C19_ReturnedEventReflectsMutation ==
    [][/\ \A k \in StoreKeys, q \in Quotes :
            UpdateQuote(k[1], k[2], q) =>
                LET h2 == get_history(quote_history', k[1], k[2]) IN
                /\ reply'.type = "quote"
                /\ reply'.market_id = k[1] /\ reply'.outcome_id = k[2]
                /\ h2 # <<>>
                /\ h2[Len(h2)] = [ts |-> reply'.ts, mid |-> reply'.mid,
                                   bid |-> reply'.bid, ask |-> reply'.ask]
                /\ reply'.ts = now /\ reply'.mid = q.mid
                /\ reply'.bid = q.bid /\ reply'.ask = q.ask
       /\ \A k \in StoreKeys, book \in Books :
            UpdateOrderbook(k[1], k[2], book) =>
                /\ reply'.type = "orderbook"
                /\ get_orderbook(latest_orderbooks', k[1], k[2]) =
                      [market_id |-> reply'.market_id, outcome_id |-> reply'.outcome_id,
                       ts |-> reply'.ts, bids |-> reply'.bids, asks |-> reply'.asks]
                /\ reply'.market_id = k[1] /\ reply'.outcome_id = k[2]
                /\ reply'.ts = now
                /\ reply'.bids = book.bids /\ reply'.asks = book.asks]_vars

\* C19, reached: update_quote has returned the event of a second point of a
\* key, at a later time than the first.
C19_Witness ==
    /\ reply.type = "quote"
    /\ LET h == get_history(quote_history, reply.market_id, reply.outcome_id) IN
       /\ Len(h) = 2
       /\ h[2].ts = reply.ts
       /\ h[1].ts < h[2].ts

\* C20: the history endpoint, asked for a market of the catalog, returns the
\* buffered points of the key, oldest first: those with ts >= now -
\* range_seconds when a range is given, all of them when none is.
C20_HistoryHonoursRange ==
    (reply.type = "get_market_history" /\ reply.market_id \in catalog) =>
        LET full == get_history(quote_history, reply.market_id, reply.outcome_id) IN
        /\ reply.result.type = "ok"
        /\ reply.result.points =
              IF reply.range \in {"-", "ALL"} THEN full
              ELSE SelectSeq(full, LAMBDA pt : pt.ts >= now - 3600)

\* C14: the messages of one (market_id, outcome_id) key reach a connection
\* in the order in which their updates were applied to the state store: a
\* message delivered to a connection is never older than the message of the
\* same key delivered to it before.
C14_DeliveryFollowsApplicationOrder ==
    [][\A c \in Conns : \A k \in DOMAIN received[c] :
          received'[c][k] # received[c][k] =>
              ~Older(received'[c][k], received[c][k])]_vars

\* The broadcast tasks a step creates.
Created == {b \in BIds : broadcasts'[b].pc = "ready" /\ broadcasts'[b] # broadcasts[b]}

\* C15: every update_orderbook and update_quote of a poll creates exactly one
\* broadcast task, for the market_id of the message the update returned and
\* with that message as payload, and nothing else creates one; a broadcast
\* sends its payload only to members of the subscriber set of the payload's
\* market (the set of the registry, or the set object the broadcast began to
\* iterate when the registry has dropped it since), and a connection is
\* delivered nothing but the payload of a send addressed to it.
C15_EveryUpdateBroadcastOnce ==
    [][/\ \A p \in PIds, resp \in Responses :
            PollerUpdate(p, resp) =>
                LET out == poll_orderbook(latest_orderbooks, quote_history,
                               markets[pollers[p].m], resp, now + 1).out
                IN  /\ Cardinality(Created) = Len(out)
                    /\ \A i \in 1..Len(out) :
                          Cardinality({b \in Created :
                              /\ msgs'[b] = out[i]
                              /\ broadcasts'[b] = NewBroadcast(out[i].market_id)}) = 1
       /\ Created # {} => \E p \in PIds, resp \in Responses : PollerUpdate(p, resp)
       /\ \A b \in BIds :
            (/\ broadcasts'[b].pc = "send"
             /\ broadcasts[b].pc # "send" \/ broadcasts[b].cur # broadcasts'[b].cur) =>
                /\ msgs'[b] = msgs[b]
                /\ broadcasts'[b].m = msgs[b].market_id
                /\ \A m \in Markets :
                      m = msgs[b].market_id =>
                          broadcasts'[b].cur \in
                              IF broadcasts'[b].live THEN Subscribers(m)'
                              ELSE broadcasts'[b].snap
       /\ \A c \in Conns :
            received'[c] # received[c] =>
                \E b \in BIds :
                    /\ broadcasts[b].pc = "send" /\ broadcasts[b].cur = c
                    /\ broadcasts'[b] # broadcasts[b]
                    /\ received' = Delivered(received, c, msgs[b])]_vars

\* C15, reached: the two updates of one poll have been broadcast and both
\* delivered to the subscriber of their market, while the connection that is
\* subscribed to the other market only has been sent nothing.
C15_Witness ==
    \E c \in Conns, d \in Conns :
        /\ applied = 2
        /\ \A b \in BIds : broadcasts[b].pc = "done" /\ broadcasts[b].delivered = {c}
        /\ msgs[1].type = "orderbook" /\ msgs[2].type = "quote"
        /\ msgs[1].ts = msgs[2].ts
        /\ Subscribers("km") = {c}
        /\ Subscribers("pm") = {d}
        /\ d # c
        /\ received[d] = [k \in {} |-> Absent]
        /\ received[c][KeyOf(msgs[2])] = msgs[2]

\* C21: a transport error, a non-200 status or a malformed payload in an
\* upstream fetch of a poll ends neither the fetching function nor the task:
\* the loop goes on to its next await, changing nothing in the registry or
\* the state store, and from there every await that returns takes the task
\* one await further round the loop, so that after the sleep it fetches
\* again; a task whose last fetch failed has not ended.
C21_UpstreamFailureKeepsPolling ==
    /\ [](\A p \in PIds : failed[p] => pollers[p].pc # "done")
    /\ [][\A p \in PIds :
            /\ \A failure \in Failures :
                  PollerFails(p, failure) =>
                      /\ pollers'[p] = [pollers[p] EXCEPT
                                           !.pc = NextPc(Source(pollers[p].m), @)]
                      /\ pollers'[p].pc \in {"book", "pause", "sleep"}
                      /\ UNCHANGED <<markets, subscriptions, polling_tasks, store>>
            /\ (failed[p] /\ PollerStep(p, 0)) =>
                  /\ pollers[p].pc = "pause" => pollers'[p].pc = "sleep"
                  /\ pollers[p].pc = "sleep" => pollers'[p].pc \in {"price", "book"}]_vars

\* C21, reached: a Kalshi poll loop and a Polymarket poll loop whose last
\* fetch failed are each in the first fetch of their next tick.
C21_Witness ==
    \E p \in PIds, q \in PIds :
        /\ failed[p] /\ pollers[p].m = "km" /\ pollers[p].pc = "book"
        /\ failed[q] /\ pollers[q].m = "pm" /\ pollers[q].pc = "price"

\* What C22 asks of a poll that has stored the snapshot book at the time ts:
\* the quote appended to the history of the key.
DerivedQuote(book, ts) ==
    IF book.bids # <<>> /\ book.asks # <<>>
    THEN [ts |-> ts, mid |-> (book.bids[1].p + book.asks[1].p) \div 2,
          bid |-> book.bids[1].p, ask |-> book.asks[1].p]
    ELSE IF book.bids # <<>>
    THEN [ts |-> ts, mid |-> book.bids[1].p, bid |-> book.bids[1].p,
          ask |-> book.bids[1].p]
    ELSE [ts |-> ts, mid |-> book.asks[1].p, bid |-> book.asks[1].p,
          ask |-> book.asks[1].p]

\* A poll of the key (market_id, outcome_id) that has stored a snapshot with
\* at least one level has appended the quote derived from its best levels.
QuoteFollowsBook(market_id, outcome_id) ==
    LET book == get_orderbook(latest_orderbooks', market_id, outcome_id)
        h == get_history(quote_history, market_id, outcome_id)
        h2 == get_history(quote_history', market_id, outcome_id)
    IN  (book.bids # <<>> \/ book.asks # <<>>) =>
            h2 = deque_append(h, DerivedQuote(book, now))

\* C22: a poll_orderbook that has stored an order book for an outcome
\* appends a quote derived from the best levels: mid the average of best bid
\* and best ask when both exist, else the best price of the one side that
\* exists as mid, bid and ask; for the Kalshi and the Polymarket connector.
C22_QuoteDerivedFromBestLevels ==
    [][/\ \A resp \in KalshiPayloads :
            (PollKalshi("km", resp) /\ resp.status = 200) =>
                QuoteFollowsBook("km", markets["km"].outcomes[1])
       /\ \A i \in 1..2, resp \in ClobPayloads :
            (PollPolymarket("pm", i, resp) /\ resp.status = 200) =>
                QuoteFollowsBook("pm", markets["pm"].outcomes[i])]_vars

\* Bids by descending and asks by ascending price.
Sorted(book) ==
    /\ \A i \in 1..Len(book.bids) - 1 : book.bids[i].p >= book.bids[i + 1].p
    /\ \A i \in 1..Len(book.asks) - 1 : book.asks[i].p <= book.asks[i + 1].p

\* C23: every order book snapshot in the state store that a poll of a
\* connector has stored has its bids sorted by descending and its asks by
\* ascending price, in whichever order the upstream payload lists the levels.
C23_StoredBooksAreSorted ==
    \A k \in DOMAIN latest_orderbooks : Sorted(latest_orderbooks[k])

\* C23, reached: both connectors have stored a snapshot with two levels of
\* different prices on each side.
C23_Witness ==
    \E k \in DOMAIN latest_orderbooks, j \in DOMAIN latest_orderbooks :
        /\ latest_orderbooks[k].market_id = "km"
        /\ latest_orderbooks[j].market_id = "pm"
        /\ \A b \in {latest_orderbooks[k], latest_orderbooks[j]} :
              /\ Len(b.bids) = 2 /\ b.bids[1].p > b.bids[2].p
              /\ Len(b.asks) = 2 /\ b.asks[1].p < b.asks[2].p

C26_PolymarketOutcomesNeverEmpty ==
    [][\A data \in PolyRecords :
          (IngestPolymarket(data) \/ NormalizeLegacy(data)) =>
              LET market == IF reply'.type = "normalize_market" THEN reply'.result
                            ELSE reply'
              IN  /\ market # Absent =>
                        /\ market.type = "Market"
                        /\ market.market_id = data.conditionId
                        /\ Len(market.outcomes) >= 1
                  /\ data.conditionId = "-" => (market = Absent /\ markets' = markets)
                  /\ (market # Absent /\ data.clobTokenIds = "[]") =>
                        market.outcomes = <<data.conditionId \o "_yes",
                                            data.conditionId \o "_no">>]_vars

\* C26, reached: the catalog holds the Polymarket market normalized from a
\* record with an empty array of token ids, with the two synthetic outcomes.
C26_Witness ==
    /\ "pm" \in DOMAIN markets
    /\ reply = markets["pm"]
    /\ markets["pm"].outcomes = <<"pm_yes", "pm_no">>

\* The results of a search, each as it is in the catalog.
Upserted(results, ms) ==
    \A i \in 1..Len(results) :
        /\ results[i].market_id \in DOMAIN ms
        /\ ms[results[i].market_id] = results[i]

\* C25: a Kalshi record without ticker, or with a status other than active
\* or open, normalizes to nothing, never enters the catalog and is never among
\* the results of a search; the records that share its batch are processed:
\* one that normalizes to a market the search has not seen is upserted and
\* returned, and the search goes past the dropped record unless it has its
\* hundred results.
C25_UntradableRecordsAreSkipped ==
    /\ [](\A id \in {"-", "kx3"} :
            /\ id \notin DOMAIN markets
            /\ id \notin search.seen_ids
            /\ \A i \in 1..Len(search.results) : search.results[i].market_id # id
            /\ reply # Absent =>
                  \A i \in 1..Len(reply.results) : reply.results[i].market_id # id)
    /\ [][(search.pc = "scan" /\ search.source = "kalshi") =>
            \A bad \in {r \in Records("kalshi") : normalize_market(r) = Absent},
               good \in {r \in Records("kalshi") : normalize_market(r) # Absent},
               badFirst \in BOOLEAN :
                LET batch == IF badFirst THEN <<bad, good>> ELSE <<good, bad>>
                    page == [failure |-> "-",
                             events |-> <<[markets |-> batch, title |-> "t1"]>>,
                             cursor |-> FALSE]
                    m == normalize_market(good)
                IN  (SearchPage(page) /\ search.query = "t1") =>
                        /\ DOMAIN markets' = DOMAIN markets \cup {m.market_id}
                        /\ m.market_id \notin search.seen_ids =>
                              /\ markets'[m.market_id] = m
                              /\ reply'.results = Append(search.results, m)
                        /\ Len(reply'.results) < max_results =>
                              reply'.dropped]_vars

\* C25, reached: a Kalshi search has returned a market it upserted from a
\* response of which it dropped a record.
C25_Witness ==
    /\ reply # Absent
    /\ reply.source = "kalshi"
    /\ reply.dropped
    /\ reply.results # <<>>
    /\ Upserted(reply.results, markets)

\* C27: whatever the catalog held and whatever upstream answered, a search of
\* either connector returns at most 100 markets, no two of them under the
\* same market_id.
C27_SearchReturnsAtMostHundredDistinct ==
    reply # Absent =>
        /\ Len(reply.results) <= 100
        /\ \A i, j \in 1..Len(reply.results) :
              reply.results[i].market_id = reply.results[j].market_id => i = j

\* C27, reached: a search has returned exactly 100 markets out of a catalog
\* that holds more than 100 markets of its source.
C27_Witness ==
    /\ reply # Absent
    /\ Len(reply.results) = 100
    /\ Cardinality({m \in DOMAIN markets : markets[m].source = reply.source}) > 100

\* Whether the list p is the beginning of the list l.
IsPrefix(p, l) == Len(p) <= Len(l) /\ SubSeq(l, 1, Len(p)) = p

\* C28: a search that an upstream failure ends (a transport error, a status
\* other than 200, a payload of the wrong form) does not raise: it returns
\* the results it had gathered, followed by those it gathered from the
\* response before the failure, and the catalog keeps every market it held,
\* those results included; a failed ticker lookup leaves results and catalog
\* as they were and the search goes on.
C28_SearchSurvivesUpstreamFailure ==
    /\ [](reply # Absent => ~reply.raised)
    /\ [][
        /\ \A m \in DOMAIN markets : m \in DOMAIN markets'
        /\ (search.pc \in {"scan", "public"} /\ search'.pc = "idle"
               /\ reply'.failure # "-") =>
              /\ IsPrefix(first(search.results, 100), reply'.results)
              /\ \A i \in 1..Len(reply'.results) :
                    i > Len(search.results) =>
                        markets'[reply'.results[i].market_id] = reply'.results[i]
              /\ \A m \in DOMAIN markets :
                    markets'[m] # markets[m] =>
                        \E i \in 1..Len(reply'.results) : reply'.results[i] = markets'[m]
        /\ search.pc = "lookup" =>
              \A failure \in Failures :
                 KalshiLookup(failure, Absent) =>
                    /\ markets' = markets
                    /\ search'.pc \in {"scan", "idle"}
                    /\ (search'.pc = "scan" => search'.results = search.results)
                    /\ (search'.pc = "idle" =>
                           reply'.results = first(search.results, 100))
       ]_vars

\* C28, reached: an upstream failure has ended a search that had upserted a
\* market before; the search has returned the market and the catalog holds it.
C28_Witness ==
    /\ reply # Absent
    /\ reply.failure \in Failures
    /\ reply.results # <<>>
    /\ Upserted(reply.results, markets)

\* C29: the catalog entry of a market that a search has normalized from the
\* upstream response equals that normalization when the search returns, also
\* when the market was in the cache and matched the query; stated for the
\* first record of the first response of a search.
C29_SearchUpsertsEveryResult ==
    [][
        /\ (search.pc \in {"scan", "public"} /\ search.pages_scanned = 0) =>
              \A record \in Records(search.source) :
                 LET page == [failure |-> "-",
                              events |-> <<[markets |-> <<record>>, title |-> "t1"]>>,
                              cursor |-> FALSE]
                     m == IF search.source = "kalshi" THEN normalize_market(record)
                          ELSE normalize_event_market(record)
                 IN  (/\ SearchPage(page)
                      /\ m # Absent
                      /\ (search.source = "kalshi" => search.query = "t1")) =>
                         markets'[m.market_id] = m
        /\ search.pc = "lookup" =>
              \A record \in Records("kalshi") :
                 (KalshiLookup("-", record) /\ normalize_market(record) # Absent) =>
                     markets'[normalize_market(record).market_id] =
                         normalize_market(record)
      ]_vars

\* The subscriber set and the poller handle of every market other than A are
\* the same before and after the step.
FrameOf(A) ==
    \A B \in Markets \ {A} :
        /\ Has(subscriptions', B) <=> Has(subscriptions, B)
        /\ Has(subscriptions, B) => Get(subscriptions', B) = Get(subscriptions, B)
        /\ B \in DOMAIN polling_tasks' <=> B \in DOMAIN polling_tasks
        /\ B \in DOMAIN polling_tasks => polling_tasks'[B] = polling_tasks[B]

\* C30: a subscribe, an unsubscribe (its part behind the wait for the poller
\* included) and a broadcast on a market A leave the subscriber set and the
\* poller handle of every other market as they are; and while an unsubscribe
\* of A waits for A's poller, a connection whose handler is at its receive
\* can unsubscribe from and subscribe to another market B.
C30_MarketsAreIndependent ==
    /\ [](\A c \in Conns :
            (handlers[c].pc = "stop_wait" /\ pollers[handlers[c].p].pc # "done") =>
                \A c2 \in Conns \ {c}, B \in Markets \ {handlers[c].m} :
                    handlers[c2].pc = "recv" =>
                        /\ ENABLED Unsubscribe(c2, B)
                        /\ CanSubscribe(B, c2) => ENABLED Subscribe(c2, B))
    /\ [][(subscriptions' # subscriptions \/ polling_tasks' # polling_tasks) =>
        /\ \A c \in Conns, A \in Markets :
              (Subscribe(c, A) \/ Unsubscribe(c, A)) => FrameOf(A)
        /\ \A c \in Conns :
              (HandlerResume(c) /\ ~handlers[c].all) => FrameOf(handlers[c].m)
        /\ \A b \in BIds :
              (BroadcastStart(b) \/ BroadcastSend(b, TRUE) \/ BroadcastSend(b, FALSE)
                 \/ BroadcastResume(b)) => FrameOf(broadcasts[b].m)
       ]_vars

\* C30, reached: the handler of one connection waits in the unsubscribe of
\* the Kalshi market for its poller, which has not finished, and the other
\* connection, at its receive, is the one subscriber of the other market.
C30_Witness ==
    \E c \in Conns, c2 \in Conns :
        /\ c # c2
        /\ handlers[c].pc = "stop_wait" /\ handlers[c].m = "km" /\ ~handlers[c].all
        /\ pollers[handlers[c].p].pc # "done"
        /\ handlers[c2].pc = "recv"
        /\ Has(subscriptions, "pm") /\ Get(subscriptions, "pm") = {c2}

\* subscribe(m, c) gets as far as `await self.spawner(market_id)`: the set has
\* one member after the add and no handle is recorded for m.
InvokesSpawner(c, m) ==
    /\ Cardinality(Subscribers(m) \cup {c}) = 1
    /\ m \notin DOMAIN polling_tasks

\* C31: a poller task for m is created only in a subscribe that takes m's
\* subscriber set from empty to non-empty; such a subscribe, for a market in
\* the catalog, creates exactly one; and a subscribe that finds the set
\* non-empty (another connection, or the one subscriber again) neither
\* invokes the spawner nor creates a poller task.
C31_PollerStartsOncePerFirstSubscribe ==
    [][\A m \in Markets :
        LET started == Live(pollers', m) \ Live(pollers, m) IN
        /\ started # {} =>
              \E c \in Conns : Subscribe(c, m) /\ Subscribers(m) = {}
        /\ \A c \in Conns :
              Subscribe(c, m) =>
                 /\ (Subscribers(m) = {} /\ m \in catalog) => Cardinality(started) = 1
                 /\ Subscribers(m) # {} => (started = {} /\ ~InvokesSpawner(c, m))
      ]_vars

\* The sockets broadcast b has found dead: their send has failed.
DeadOf(rec) == {rec.dead[i] : i \in 1..Len(rec.dead)}

\* C32: a connection leaves the subscriber set of a market only by its own
\* unsubscribe of that market, by its own unsubscribe_from_all, or by a
\* broadcast for that market in which the send to it has failed; so a
\* subscription that has been made stays until one of these happens.
C32_SubscriptionNeverLost ==
    [][\A m \in Markets, c \in Conns :
        (c \in Subscribers(m) /\ c \notin Subscribers(m)') =>
            \/ Unsubscribe(c, m)
            \/ Disconnect(c)
            \/ HandlerResume(c) /\ handlers[c].all
            \/ \E b \in BIds :
                  /\ broadcasts'[b] # broadcasts[b]
                  /\ broadcasts[b].m = m
                  /\ c \in DeadOf(broadcasts'[b])
      ]_vars

\* C33: no step of an unsubscribe or of an unsubscribe_from_all, in a
\* connection's handler or in a broadcast, in whichever order the tasks run,
\* ends with an exception.
C33_UnsubscribeNeverRaises ==
    [][/\ \A c \in Conns :
            ((\E m \in Markets : Unsubscribe(c, m)) \/ Disconnect(c) \/ HandlerResume(c))
                => handlers'[c].pc # "crashed"
       /\ \A b \in BIds :
            BroadcastResume(b) => broadcasts'[b].pc # "raised"
      ]_vars

\* C34: an unsubscribe that removed the last subscriber of a market and waits
\* for the market's poller task eventually stops waiting (it returns), when the
\* poller task and the handlers are scheduled fairly.
C34_LastUnsubscribeReturns ==
    \A c \in Conns :
        (handlers[c].pc = "stop_wait" /\ ~handlers[c].all)
            ~> (handlers[c].pc # "stop_wait")

\* No subscribe, unsubscribe or unsubscribe_from_all is suspended part-way.
NoRegistryOperationInProgress ==
    /\ \A c \in Conns : handlers[c].pc # "stop_wait"
    /\ \A b \in BIds : broadcasts[b].pc # "stop_wait"

\* C35: whenever no registry operation is in progress, every market of the
\* catalog that has a subscriber has a recorded poller task that is running.
C35_SubscribedCatalogMarketIsPolled ==
    NoRegistryOperationInProgress =>
        \A m \in catalog :
            Subscribers(m) # {} =>
                /\ m \in DOMAIN polling_tasks
                /\ pollers[polling_tasks[m]].pc # "done"

\* C36: a subscribe by a connection that is already in the market's subscriber
\* set leaves the set and the number of the market's poller tasks as they
\* were; an unsubscribe of a subscribed connection takes it out of the set and,
\* when it was the only subscriber, requests the stop of the market's pollers.
C36_SubscribeIdempotent ==
    [][\A c \in Conns, m \in Markets :
        /\ (Subscribe(c, m) /\ c \in Subscribers(m)) =>
              /\ Subscribers(m)' = Subscribers(m)
              /\ Cardinality(Live(pollers', m)) = Cardinality(Live(pollers, m))
        /\ (Unsubscribe(c, m) /\ c \in Subscribers(m)) =>
              /\ c \notin Subscribers(m)'
              /\ Subscribers(m) = {c} =>
                    \A p \in Live(pollers, m) :
                        pollers'[p].cancelling \/ pollers'[p].pc = "done"
      ]_vars

\* C37: an unsubscribe for a connection that is not in the market's subscriber
\* set, or for a market without an entry, leaves every subscriber set and
\* every poller handle as it was and requests no cancellation.
C37_UnsubscribeOfNonSubscriberIsNoOp ==
    [][\A c \in Conns, m \in Markets :
        (Unsubscribe(c, m) /\ c \notin Subscribers(m)) =>
            /\ subscriptions' = subscriptions
            /\ polling_tasks' = polling_tasks
            /\ pollers' = pollers
      ]_vars

\* The history and the snapshot of every pair but k are the same before and
\* after the step.
OtherKeysUnchanged(k) ==
    \A k2 \in StoreKeys \ {k} :
        /\ get_history(quote_history', k2[1], k2[2]) = get_history(quote_history, k2[1], k2[2])
        /\ get_orderbook(latest_orderbooks', k2[1], k2[2])
             = get_orderbook(latest_orderbooks, k2[1], k2[2])

\* C38: update_quote for a pair changes the quote history of that pair only
\* and update_orderbook the snapshot of that pair only: the catalog, the
\* other store of the pair, and the history and snapshot of every other pair
\* are unchanged.
C38_StoreUpdatesTouchOwnKeyOnly ==
    [][/\ \A k \in StoreKeys, q \in Quotes :
            UpdateQuote(k[1], k[2], q) =>
                /\ markets' = markets
                /\ latest_orderbooks' = latest_orderbooks
                /\ OtherKeysUnchanged(k)
       /\ \A k \in StoreKeys, book \in Books :
            UpdateOrderbook(k[1], k[2], book) =>
                /\ markets' = markets
                /\ quote_history' = quote_history
                /\ OtherKeysUnchanged(k)
      ]_vars

\* One outcome of pm has a quote and no snapshot, the other a snapshot and no
\* quote.
C38_Witness ==
    /\ get_history(quote_history, "pm", "tok1") # <<>>
    /\ get_orderbook(latest_orderbooks, "pm", "tok1") = Absent
    /\ get_history(quote_history, "pm", "tok2") = <<>>
    /\ get_orderbook(latest_orderbooks, "pm", "tok2") # Absent

----------------------------------------------------------------------------
\* A whole call of PolymarketConnector.poll_orderbook.

\* What the GET /book of one round comes to: the request raises (a timeout, a
\* refused connection), or a response arrives; a response whose status is not
\* 200 (404 for a token without a book) is printed and nothing is stored.
PollFetches ==
    {[raised |-> TRUE, resp |-> [status |-> 500, book |-> [bids |-> <<>>, asks |-> <<>>]]],
     [raised |-> FALSE, resp |-> [status |-> 500, book |-> [bids |-> <<>>, asks |-> <<>>]]],
     [raised |-> FALSE,
      resp |-> [status |-> 200,
                book |-> [bids |-> <<[price |-> 60, size |-> 5]>>,
                          asks |-> <<[price |-> 80, size |-> 5]>>]]],
     [raised |-> FALSE,
      resp |-> [status |-> 200,
                book |-> [bids |-> <<>>,
                          asks |-> <<[price |-> 80, size |-> 7], [price |-> 60, size |-> 5]>>]]]}

RECURSIVE poll_rounds_one_try(_, _, _, _, _, _)
\* The loop inside one try block: the first request that raises ends the call.
poll_rounds_one_try(ob, qh, market, fetches, ts, i) ==
    IF i > Len(market.outcomes) \/ fetches[i].raised
    THEN [qh |-> qh, ob |-> ob, out |-> <<>>]
    ELSE LET r == polymarket_poll_orderbook(ob, qh, market.market_id,
                      market.outcomes[i], fetches[i].resp, ts)
             rest == poll_rounds_one_try(r.ob, r.qh, market, fetches, ts, i + 1)
         IN  [qh |-> rest.qh, ob |-> rest.ob, out |-> r.out \o rest.out]

RECURSIVE poll_rounds(_, _, _, _, _, _)
\* `for outcome in market.outcomes:` from the i-th outcome on, fetches[i] being
\* what the request of round i comes to.  Each round has its own try block:
\* `except Exception` prints and the loop goes on to the next outcome.
poll_rounds(ob, qh, market, fetches, ts, i) ==
    IF i > Len(market.outcomes)
    THEN [qh |-> qh, ob |-> ob, out |-> <<>>]
    ELSE LET r == IF fetches[i].raised
                  THEN [qh |-> qh, ob |-> ob, out |-> <<>>]
                  ELSE polymarket_poll_orderbook(ob, qh, market.market_id,
                           market.outcomes[i], fetches[i].resp, ts)
             rest == poll_rounds(r.ob, r.qh, market, fetches, ts, i + 1)
         IN  [qh |-> rest.qh, ob |-> rest.ob, out |-> r.out \o rest.out]

\* The sequences of fetches of a poll of a market with two outcomes.
PollFetchSeqs == [1..2 -> PollFetches]

\* PolymarketConnector.poll_orderbook(market_id), the whole call; it returns
\* None whatever its requests came to, which reply records.
PollOrderbook(market_id, fetches) ==
    /\ market_id \in catalog
    /\ Len(markets[market_id].outcomes) = Len(fetches)
    /\ LET r == poll_rounds(latest_orderbooks, quote_history,
                            markets[market_id], fetches, now, 1)
       IN  /\ applied + Len(r.out) <= MaxPolled
           /\ latest_orderbooks' = r.ob
           /\ quote_history' = r.qh
           /\ applied' = applied + Len(r.out)
    /\ reply' = [type |-> "poll_orderbook", market_id |-> market_id, fetches |-> fetches]
    /\ UNCHANGED <<rvars, now, msgs, received, sendq, failed, search>>

\* The responses to the one request of a Kalshi poll: a failure, a book with
\* both sides, a book with asks only.
KalshiFetches ==
    {resp \in KalshiPayloads :
        /\ resp.orderbook.yes \in {<<>>, <<<<40, 5>>>>}
        /\ resp.orderbook.no = <<<<40, 5>>>>}

\* Whole order-book polls of both connectors on the state store.
NextPollCalls ==
    \/ Tick
    \/ \E resp \in KalshiFetches : PollKalshi("km", resp)
    \/ \E fetches \in PollFetchSeqs : PollOrderbook("pm", fetches)

SpecPollCalls == InitStoreSlice /\ [][NextPollCalls]_vars

\* The snapshot a round stores for a response with status 200.
SnapshotOf(market_id, token_id, resp, ts) ==
    [market_id |-> market_id, outcome_id |-> token_id, ts |-> ts,
     bids |-> sort(book_levels(resp.book.bids), TRUE),
     asks |-> sort(book_levels(resp.book.asks), FALSE)]

\* C39: in a poll of a market with several outcomes, an outcome whose fetch
\* raised or came back with a status other than 200 keeps the snapshot it had,
\* and every other outcome, before it or after it in the list, has the book of
\* its own response stored by the same call.
C39_FailedFetchSkipsOneOutcomeOnly ==
    [][\A fetches \in PollFetchSeqs :
          PollOrderbook("pm", fetches) =>
              \A i \in 1..Len(markets["pm"].outcomes) :
                  LET o == markets["pm"].outcomes[i] IN
                  IF fetches[i].raised \/ fetches[i].resp.status # 200
                  THEN get_orderbook(latest_orderbooks', "pm", o)
                           = get_orderbook(latest_orderbooks, "pm", o)
                  ELSE get_orderbook(latest_orderbooks', "pm", o)
                           = SnapshotOf("pm", o, fetches[i].resp, now)
      ]_vars

\* The first outcome of pm has no snapshot, the second one has: a poll whose
\* first fetch failed has stored the book of the second.
C39_Witness ==
    /\ get_orderbook(latest_orderbooks, "pm", markets["pm"].outcomes[1]) = Absent
    /\ get_orderbook(latest_orderbooks, "pm", markets["pm"].outcomes[2]) # Absent

----------------------------------------------------------------------------
\* KalshiConnector.search_events: its requests and its pauses.

\* `while pages_scanned < 3` and `len(events) >= 10`.
event_pages == 3
max_events == 10

\* No search_events call under way.  event_list is what is left of the page's
\* events, the event whose markets are being fetched at its head.
IdleEventSearch ==
    [source |-> "kalshi", pc |-> "idle", query |-> "", pages_scanned |-> 0,
     calls |-> 0, events |-> <<>>, cursor |-> FALSE, standalone_markets |-> <<>>,
     seen_event_ids |-> {}, event_list |-> <<>>]

\* After the loop over the events of a page: return, or sleep before the
\* next page.
after_for(s) ==
    IF ~s.cursor \/ Len(s.events) >= max_events
    THEN [s EXCEPT !.pc = "return"] ELSE [s EXCEPT !.pc = "sleep"]

\* `for event_data in event_list:` up to its next await: events whose title
\* does not hold the keyword, or that were seen, are passed over; for the
\* first other one GET /markets is sent.
RECURSIVE for_events(_)
for_events(s) ==
    IF s.event_list = <<>> THEN after_for(s)
    ELSE LET event_data == Head(s.event_list) IN
         IF \/ ~Contains(s.query, event_data.title)
            \/ event_data.event_ticker \in s.seen_event_ids
         THEN for_events([s EXCEPT !.event_list = Tail(@)])
         ELSE [s EXCEPT !.seen_event_ids = @ \cup {event_data.event_ticker},
                        !.pc = "markets"]

\* return events, standalone_markets
EventsReturn(s) ==
    /\ reply' = [type |-> "search_events", events |-> s.events,
                 standalone_markets |-> s.standalone_markets]
    /\ search' = [IdleEventSearch EXCEPT !.calls = s.calls]

\* The call goes to its next await, or returns.
EventsGoOn(s) ==
    IF s.pc = "return" THEN EventsReturn(s) ELSE search' = s /\ UNCHANGED reply

\* search_events(query) up to its first await, the request of the first page.
SearchEventsStart(query) ==
    /\ search.pc = "idle"
    /\ search.calls < MaxSearches
    /\ search' = [IdleEventSearch EXCEPT !.pc = "events", !.query = query,
                                         !.calls = search.calls + 1]
    /\ UNCHANGED <<rvars, quote_history, latest_orderbooks, now, reply, delivery, failed>>

\* The items of "events" in a page, and the pages: a transport error is
\* caught by the `except Exception` around the loop, a status other than 200
\* breaks out of it.
EventData == {[title |-> "t1", event_ticker |-> "e1"],
              [title |-> "t1", event_ticker |-> "e2"],
              [title |-> "zz", event_ticker |-> "e3"]}
EventPages ==
    [failure : {"transport", "status"}, events : {<<>>}, cursor : {FALSE}]
        \cup [failure : {"-"}, events : UNION {[1..n -> EventData] : n \in 0..2},
              cursor : BOOLEAN]

\* The response to GET /events arrives.
EventsPage(page) ==
    /\ search.pc = "events"
    /\ IF page.failure # "-" THEN EventsReturn(search)
       ELSE EventsGoOn(for_events([search EXCEPT !.cursor = page.cursor,
                                                 !.pages_scanned = @ + 1,
                                                 !.event_list = page.events]))
    /\ UNCHANGED <<rvars, quote_history, latest_orderbooks, now, delivery, failed>>

\* The "markets" of the response to GET /markets for one event.
EventMarketLists ==
    LET records == {[ticker |-> "km", status |-> "active", title |-> "t1",
                     yes_bid |-> 40, yes_ask |-> 60],
                    [ticker |-> "kx2", status |-> "open", title |-> "t1",
                     yes_bid |-> 0, yes_ask |-> 60],
                    [ticker |-> "kx3", status |-> "closed", title |-> "t1",
                     yes_bid |-> 40, yes_ask |-> 60]}
    IN  UNION {[1..n -> records] : n \in 0..2}
EventMarketResponses ==
    [markets : {<<>>}, failure : {"transport", "status"}]
        \cup [markets : EventMarketLists, failure : {"-"}]

\* update_market for each market of the list, in order.
RECURSIVE update_markets(_, _)
update_markets(ms, list) ==
    IF list = <<>> THEN ms
    ELSE update_markets(update_market(ms, Head(list)), Tail(list))

\* The response to GET /markets for the event at the head of event_list
\* arrives: its markets are normalized and upserted; more than one make an
\* Event, one a standalone market; then the loop goes on with the next event.
EventMarkets(resp) ==
    /\ search.pc = "markets"
    /\ LET event_data == Head(search.event_list)
           s == [search EXCEPT !.event_list = Tail(@)]
           normalized == [i \in 1..Len(resp.markets) |-> normalize_market(resp.markets[i])]
           list == SelectSeq(normalized, LAMBDA m : m # Absent)
           ids == [i \in 1..Len(list) |-> list[i].market_id]
           s2 == IF Len(list) > 1
                 THEN [s EXCEPT !.events = Append(@, event_data.event_ticker)]
                 ELSE [s EXCEPT !.standalone_markets = @ \o ids]
       IN  IF resp.failure = "transport"
           THEN EventsReturn(search) /\ UNCHANGED markets
           ELSE IF resp.failure = "status"
           THEN EventsGoOn(for_events(s)) /\ UNCHANGED markets
           ELSE /\ markets' = update_markets(markets, list)
                /\ IF list = <<>> THEN EventsGoOn(for_events(s))
                   ELSE IF Len(s2.events) >= max_events THEN EventsGoOn(after_for(s2))
                   ELSE EventsGoOn(for_events(s2))
    /\ UNCHANGED <<subscriptions, polling_tasks, pollers, handlers, broadcasts>>
    /\ UNCHANGED <<quote_history, latest_orderbooks, now, delivery, failed>>

\* asyncio.sleep(0.05) is over: the while condition, then the next page.
EventsSleep ==
    /\ search.pc = "sleep"
    /\ IF search.pages_scanned < event_pages
       THEN search' = [search EXCEPT !.pc = "events"] /\ UNCHANGED reply
       ELSE EventsReturn(search)
    /\ UNCHANGED <<rvars, quote_history, latest_orderbooks, now, delivery, failed>>

InitEventSearch ==
    /\ markets = [m \in {} |-> Absent]
    /\ search = IdleEventSearch
    /\ InitRegistry
    /\ InitStore(0)
    /\ InitDelivery

NextEventSearch ==
    \/ \E query \in {"t1"} : SearchEventsStart(query)
    \/ \E page \in EventPages : EventsPage(page)
    \/ \E resp \in EventMarketResponses : EventMarkets(resp)
    \/ EventsSleep

SpecEventSearch == InitEventSearch /\ [][NextEventSearch]_vars

\* C40: in a Kalshi event scan two successive outbound requests are separated
\* by a pause: when the response to a request has arrived, the call's next
\* await is not another request.
C40_PauseBetweenRequests ==
    [][(search.pc \in {"events", "markets"} /\ search'.pc \in {"events", "markets"})
          => search' = search]_vars

====
